---------------------------- MODULE Spec2Model ----------------------------
(***************************************************************************)
(* The academic records store of Revisiting_CRUD: professors, students,    *)
(* courses and enrollments held in the in-memory `db`, with the id         *)
(* counters, in its two variants:                                          *)
(*   enhanced  src/enhanced_university_management/main.py                  *)
(*   simple    src/simple_university_management/main.py                    *)
(* Every endpoint of the store is one action; a call runs to completion.   *)
(* `variant` says which of the two programs a behaviour is a run of.       *)
(* `requests` holds the enroll requests that worker threads are serving    *)
(* statement by statement (SpecThreads); it is empty where calls run to    *)
(* completion.  `shadow` is the store of a simple program that is sent the *)
(* same calls as the enhanced program of the run (SpecLockstep); it is     *)
(* empty in the other runs.                                                *)
(*                                                                         *)
(* Representation.                                                         *)
(*  - A pydantic object is a record of the fields the store's logic reads  *)
(*    or writes.  name / major / enrollment_date (and, in the simple       *)
(*    variant, code) are carried by the objects but never read by any      *)
(*    check or computation of the store, and are left out.                 *)
(*  - A course code is the sequence of its characters.                     *)
(*  - gpa is kept in hundredths (343 is 3.43), grade points as integers.   *)
(*  - An enhanced enrollment key f"ENR{n}" is the pair <<"ENR", n>>; a     *)
(*    simple enrollment key is the tuple <<student_id, course_id>>.        *)
(*  - A grade of None is the string "None".                                *)
(*  - An update payload is the function from the fields that were set in   *)
(*    the request (model_dump(exclude_unset=True)) to their values.        *)
(*  - An endpoint is an operator from the store `db` (the collections and  *)
(*    the id counters) and the request to the response and the store the   *)
(*    call leaves: [response, extra, db].  response is "OK", or what the   *)
(*    endpoint raises: the error_code of the AppException (enhanced), the  *)
(*    detail of the HTTPException (simple); extra is exc.extra_info.       *)
(*    The action of an endpoint makes the variables the store it leaves.   *)
(*  - Request values are drawn from the values the request schemas accept  *)
(*    (no explicit nulls in a PUT payload).                                *)
(***************************************************************************)
EXTENDS Integers, FiniteSets, Sequences, TLC

VARIABLES variant, professors, students, courses, enrollments,
          next_professor_id, next_student_id, next_course_id,
          next_enrollment_id, requests, shadow

vars == <<variant, professors, students, courses, enrollments,
          next_professor_id, next_student_id, next_course_id, next_enrollment_id,
          requests, shadow>>

(* The store as one value: db and the module-level counters.               *)
Db == [professors |-> professors, students |-> students, courses |-> courses,
       enrollments |-> enrollments, next_professor_id |-> next_professor_id,
       next_student_id |-> next_student_id, next_course_id |-> next_course_id,
       next_enrollment_id |-> next_enrollment_id]

---------------------------------------------------------------------------
(* The bound of the model: how many objects a run creates beyond the seed, *)
(* all collections together.  The counters count them; the simple variant  *)
(* has no enrollment counter, and its live enrollments are counted.        *)
MaxCreated == 2

Created(db) == (db.next_professor_id - 2) + (db.next_student_id - 2) + (db.next_course_id - 2)
               + (IF variant = "enhanced" THEN db.next_enrollment_id - 2
                                          ELSE Cardinality(DOMAIN db.enrollments))

(* The values requests are drawn from.  An id is one of an object in the   *)
(* store, or the next one, which stands for every id that is not.          *)
Emails == {"alan.turing@bletchleypark.edu", "joan.clarke@example.com", "grace.hopper@yale.edu"}
Departments == {"Computer Science"}
HireDates == {"1936-09-30"}
Years == {2}
CourseCodes == {<<"C", "S", "1", "0", "1">>}
CodeInputs == {<<"C", "S", "1", "0", "1">>, <<"c", "s", "1", "0", "1">>,
               <<"C", "1", "2", "3", "4">>, <<"C", "S", "1", "0", "1", "\n">>}
CreditValues == {4}
CapacityValues == {1}
GradeInputs == {"A", "B", "F", "b"}
ProfessorIds == DOMAIN professors \cup {next_professor_id}
StudentIds == DOMAIN students \cup {next_student_id}
CourseIds == DOMAIN courses \cup {next_course_id}

NoGrade == "None"

---------------------------------------------------------------------------
(* The grade points with an A worth 5.                                     *)
GRADE_TO_POINTS_five == [g \in {"A", "B", "C", "D", "F"} |->
                           CASE g = "A" -> 5 [] g = "B" -> 3 [] g = "C" -> 2
                             [] g = "D" -> 1 [] g = "F" -> 0]

(* GRADE_TO_POINTS                                                         *)
GRADE_TO_POINTS == [g \in {"A", "B", "C", "D", "F"} |->
                      CASE g = "A" -> 4 [] g = "B" -> 3 [] g = "C" -> 2
                        [] g = "D" -> 1 [] g = "F" -> 0]

(* grade.upper()                                                           *)
Upper(grade) ==
    CASE grade = "a" -> "A" [] grade = "b" -> "B" [] grade = "c" -> "C"
      [] grade = "d" -> "D" [] grade = "f" -> "F" [] grade = "e" -> "E"
      [] OTHER -> grade

(* str.upper() of a course code.                                           *)
LowerLetters == <<"a", "b", "c", "d", "e", "f", "g", "h", "i", "j", "k", "l", "m",
                  "n", "o", "p", "q", "r", "s", "t", "u", "v", "w", "x", "y", "z">>
UpperLetters == <<"A", "B", "C", "D", "E", "F", "G", "H", "I", "J", "K", "L", "M",
                  "N", "O", "P", "Q", "R", "S", "T", "U", "V", "W", "X", "Y", "Z">>
UpperChar(ch) == IF \E i \in DOMAIN LowerLetters : LowerLetters[i] = ch
                 THEN UpperLetters[CHOOSE i \in DOMAIN LowerLetters : LowerLetters[i] = ch]
                 ELSE ch
UpperCode(v) == [i \in DOMAIN v |-> UpperChar(v[i])]

(* The text is 2 to 4 of A-Z followed by 3 digits.                         *)
IsCourseCode(v) ==
    /\ Len(v) \in 5..7
    /\ \A i \in 1..(Len(v) - 3) : \E j \in DOMAIN UpperLetters : UpperLetters[j] = v[i]
    /\ \A i \in (Len(v) - 2)..Len(v) : v[i] \in {"0", "1", "2", "3", "4", "5", "6", "7", "8", "9"}

(* re.match(r'^[A-Z]{2,4}\d{3}$', v): $ also matches before a newline that *)
(* ends the text.                                                          *)
CourseCodeMatches(v) ==
    \/ IsCourseCode(v)
    \/ Len(v) > 0 /\ v[Len(v)] = "\n" /\ IsCourseCode(SubSeq(v, 1, Len(v) - 1))

RECURSIVE SumOver(_, _)
SumOver(f, S) == IF S = {} THEN 0
                 ELSE LET x == CHOOSE y \in S : TRUE
                      IN  f[x] + SumOver(f, S \ {x})

(* round(n / d, 2) that cuts the digits after the second off.              *)
Round2_truncates(n, d) == (100 * n) \div d

(* round(n / d, 2) in hundredths, n / d being total_points / total_credits:*)
(* Python rounds the float to the nearest hundredth, an exact tie to the   *)
(* even one (a tie needs 8 | d, and below 40 credits it is a dyadic        *)
(* fraction, which the float holds exactly).                               *)
Round2(n, d) == LET q == (100 * n) \div d
                    r == (100 * n) % d
                IN  IF 2 * r < d THEN q
                    ELSE IF 2 * r > d THEN q + 1
                    ELSE IF q % 2 = 0 THEN q ELSE q + 1

(* The enrollments calculate_gpa counts: the student's, with a grade that  *)
(* GRADE_TO_POINTS knows, of a course that is still in the store.          *)
GradedKeys(db, student_id) ==
    {k \in DOMAIN db.enrollments :
        /\ db.enrollments[k].student_id = student_id
        /\ db.enrollments[k].grade # NoGrade
        /\ db.enrollments[k].course_id \in DOMAIN db.courses
        /\ db.enrollments[k].grade \in DOMAIN GRADE_TO_POINTS}

(* The value calculate_gpa stores in student.gpa.                          *)
GpaOf(db, student_id) ==
    LET K == GradedKeys(db, student_id)
        credits(k) == db.courses[db.enrollments[k].course_id].credits
        total_points == SumOver([k \in K |-> GRADE_TO_POINTS[db.enrollments[k].grade] * credits(k)], K)
        total_credits == SumOver([k \in K |-> credits(k)], K)
    IN  IF total_credits > 0 THEN Round2(total_points, total_credits) ELSE 0

(* student.gpa < 2.0                                                       *)
Probation(gpa) == gpa < 200

(* calculate_gpa(student_id) of the enhanced variant: the store it leaves. *)
calculate_gpa(db, student_id) ==
    IF student_id \notin DOMAIN db.students THEN db
    ELSE LET g == GpaOf(db, student_id)
         IN  [db EXCEPT !.students[student_id].gpa = g,
                        !.students[student_id].academic_probation = Probation(g)]

(* check_unique_email: TRUE when it raises Conflict.  current_id is the    *)
(* set holding the id passed, empty for None.                              *)
check_unique_email(db, email, current_id) ==
    \/ \E p \in DOMAIN db.professors :
          db.professors[p].email = email /\ db.professors[p].id \notin current_id
    \/ \E s \in DOMAIN db.students :
          db.students[s].email = email /\ db.students[s].id \notin current_id

(* get_enrollment_key_by_ids that finds no enrollment.                     *)
get_enrollment_key_by_ids_finds_none(db, student_id, course_id) == {}

(* get_enrollment_key_by_ids: the set holding the key it returns, empty    *)
(* for None.  It returns the first match in the dict's order, which is the *)
(* order of insertion: the matching key with the least number.             *)
get_enrollment_key_by_ids(db, student_id, course_id) ==
    LET K == {k \in DOMAIN db.enrollments :
                /\ db.enrollments[k].student_id = student_id
                /\ db.enrollments[k].course_id = course_id}
    IN  {k \in K : \A j \in K : k[2] <= j[2]}

(* An update that applies nothing of the payload.                          *)
ApplyUpdate_ignores_payload(obj, update_data) == obj

(* setattr(obj, key, value) for each field set in the payload.             *)
ApplyUpdate(obj, update_data) ==
    [f \in DOMAIN obj \cup DOMAIN update_data |->
        IF f \in DOMAIN update_data THEN update_data[f] ELSE obj[f]]

(* del d[k] for each k of K.                                               *)
Del(d, K) == [k \in DOMAIN d \ K |-> d[k]]

(* d[k] = v for a key k that may be new.                                   *)
Put(d, k, v) == [j \in DOMAIN d \cup {k} |-> IF j = k THEN v ELSE d[j]]

(* exc.extra_info of an exception that carries none.                       *)
NoExtra == << >>

(* The endpoint returns.                                                   *)
Ok(db) == [response |-> "OK", extra |-> NoExtra, db |-> db]

(* The endpoint raises, leaving the store as it is at the raise.           *)
Raise(db, error_code, extra) == [response |-> error_code, extra |-> extra, db |-> db]

(* The payloads of the enhanced variant's PUT requests: any subset of the  *)
(* fields, each with a value its schema accepts.                           *)
PartialRecords(full) ==
    LET fields == DOMAIN (CHOOSE r \in full : TRUE)
    IN  UNION {{[f \in F |-> r[f]] : r \in full} : F \in SUBSET fields}

ProfessorUpdates == PartialRecords([email : Emails, department : Departments])
StudentUpdates == PartialRecords([email : Emails, year : Years])
CourseUpdates == PartialRecords([credits : CreditValues, max_capacity : CapacityValues,
                                 professor_id : ProfessorIds])

---------------------------------------------------------------------------
(* The seeded store of the enhanced variant.                               *)
EnhancedSeed ==
    [professors |-> (1 :> [id |-> 1, email |-> "alan.turing@bletchleypark.edu",
                           department |-> "Computer Science", hire_date |-> "1936-09-30"]),
     students |-> (1 :> [id |-> 1, email |-> "joan.clarke@example.com", year |-> 2,
                         gpa |-> 0, academic_probation |-> FALSE]),
     courses |-> (1 :> [id |-> 1, code |-> <<"C", "S", "1", "0", "1">>, credits |-> 3,
                        max_capacity |-> 30, professor_id |-> 1, enrolled_students |-> 1]),
     enrollments |-> (<<"ENR", 1>> :> [id |-> <<"ENR", 1>>, student_id |-> 1,
                                       course_id |-> 1, grade |-> NoGrade]),
     next_professor_id |-> 2,
     next_student_id |-> 2,
     next_course_id |-> 2,
     next_enrollment_id |-> 2]

(* The enhanced program after construction.                                *)
InitEnhanced ==
    /\ variant = "enhanced"
    /\ professors = EnhancedSeed.professors
    /\ students = EnhancedSeed.students
    /\ courses = EnhancedSeed.courses
    /\ enrollments = EnhancedSeed.enrollments
    /\ next_professor_id = EnhancedSeed.next_professor_id
    /\ next_student_id = EnhancedSeed.next_student_id
    /\ next_course_id = EnhancedSeed.next_course_id
    /\ next_enrollment_id = EnhancedSeed.next_enrollment_id
    /\ requests = << >>
    /\ shadow = << >>

---------------------------------------------------------------------------
(* Enhanced variant: professors.                                           *)
create_professor(db, email, department, hire_date) ==
    IF check_unique_email(db, email, {})
    THEN Raise(db, "EMAIL_ALREADY_EXISTS", NoExtra)
    ELSE Ok([db EXCEPT !.professors = Put(@, db.next_professor_id,
                            [id |-> db.next_professor_id, email |-> email,
                             department |-> department, hire_date |-> hire_date]),
                       !.next_professor_id = @ + 1])

update_professor(db, professor_id, professor_update) ==
    IF professor_id \notin DOMAIN db.professors
    THEN Raise(db, "PROFESSOR_NOT_FOUND", NoExtra)
    ELSE IF /\ "email" \in DOMAIN professor_update
            /\ check_unique_email(db, professor_update.email, {professor_id})
    THEN Raise(db, "EMAIL_ALREADY_EXISTS", NoExtra)
    ELSE Ok([db EXCEPT !.professors[professor_id] = ApplyUpdate(@, professor_update)])

(* delete_professor without the assigned-courses check.                    *)
delete_professor_unchecked(db, professor_id) ==
    IF professor_id \notin DOMAIN db.professors
    THEN Raise(db, "PROFESSOR_NOT_FOUND", NoExtra)
    ELSE Ok([db EXCEPT !.professors = Del(@, {professor_id})])

delete_professor(db, professor_id) ==
    LET assigned_courses == {c \in DOMAIN db.courses : db.courses[c].professor_id = professor_id}
    IN  IF professor_id \notin DOMAIN db.professors
        THEN Raise(db, "PROFESSOR_NOT_FOUND", NoExtra)
        ELSE IF assigned_courses # {}
        THEN Raise(db, "PROFESSOR_HAS_COURSES", [assigned_courses |-> assigned_courses])
        ELSE Ok([db EXCEPT !.professors = Del(@, {professor_id})])

(* Enhanced variant: students.                                             *)
(* create_student taking the id from the size of the collection.           *)
create_student_id_from_size(db, email, year) ==
    LET id == Cardinality(DOMAIN db.students) + 1 IN
    IF check_unique_email(db, email, {})
    THEN Raise(db, "EMAIL_ALREADY_EXISTS", NoExtra)
    ELSE Ok([db EXCEPT !.students = Put(@, id, [id |-> id, email |-> email, year |-> year,
                                                gpa |-> 0, academic_probation |-> FALSE]),
                       !.next_student_id = @ + 1])

create_student(db, email, year) ==
    IF check_unique_email(db, email, {})
    THEN Raise(db, "EMAIL_ALREADY_EXISTS", NoExtra)
    ELSE Ok([db EXCEPT !.students = Put(@, db.next_student_id,
                            [id |-> db.next_student_id, email |-> email, year |-> year,
                             gpa |-> 0, academic_probation |-> FALSE]),
                       !.next_student_id = @ + 1])

update_student(db, student_id, student_update) ==
    IF student_id \notin DOMAIN db.students
    THEN Raise(db, "STUDENT_NOT_FOUND", NoExtra)
    ELSE IF /\ "email" \in DOMAIN student_update
            /\ check_unique_email(db, student_update.email, {student_id})
    THEN Raise(db, "EMAIL_ALREADY_EXISTS", NoExtra)
    ELSE Ok([db EXCEPT !.students[student_id] = ApplyUpdate(@, student_update)])

(* delete_student decrementing every course of the store.                  *)
CoursesAfterStudentDelete_decrement_all(db, enrollments_to_delete) ==
    [c \in DOMAIN db.courses |-> [db.courses[c] EXCEPT !.enrolled_students = @ - 1]]

(* delete_student with its loop's decrement left out.                      *)
CoursesAfterStudentDelete_no_decrement(db, enrollments_to_delete) == db.courses

(* The courses collection after delete_student's loop: one decrement of    *)
(* enrolled_students per deleted enrollment whose course is in the store.  *)
CoursesAfterStudentDelete(db, enrollments_to_delete) ==
    [c \in DOMAIN db.courses |->
        [db.courses[c] EXCEPT !.enrolled_students =
            @ - Cardinality({k \in enrollments_to_delete : db.enrollments[k].course_id = c})]]

delete_student(db, student_id) ==
    LET enrollments_to_delete ==
            {k \in DOMAIN db.enrollments : db.enrollments[k].student_id = student_id}
    IN  IF student_id \notin DOMAIN db.students
        THEN Raise(db, "STUDENT_NOT_FOUND", NoExtra)
        ELSE Ok([db EXCEPT !.courses = CoursesAfterStudentDelete(db, enrollments_to_delete),
                           !.enrollments = Del(@, enrollments_to_delete),
                           !.students = Del(@, {student_id})])

(* Enhanced variant: courses.                                              *)
(* CourseCreate is validated before the endpoint runs: validate_course_code *)
(* raises unless the code matches, and returns the code in upper case.     *)
create_course(db, code, credits, max_capacity, professor_id) ==
    IF ~CourseCodeMatches(code)
    THEN Raise(db, "Validation failed", [field_errors |-> {"code"}])
    ELSE IF professor_id \notin DOMAIN db.professors
    THEN Raise(db, "PROFESSOR_NOT_FOUND", NoExtra)
    ELSE Ok([db EXCEPT !.courses = Put(@, db.next_course_id,
                            [id |-> db.next_course_id, code |-> UpperCode(code),
                             credits |-> credits,
                             max_capacity |-> max_capacity, professor_id |-> professor_id,
                             enrolled_students |-> 0]),
                       !.next_course_id = @ + 1])

(* update_course without the lookup of the payload's professor.            *)
update_course_unchecked(db, course_id, course_update) ==
    IF course_id \notin DOMAIN db.courses
    THEN Raise(db, "COURSE_NOT_FOUND", NoExtra)
    ELSE Ok([db EXCEPT !.courses[course_id] = ApplyUpdate(@, course_update)])

update_course(db, course_id, course_update) ==
    IF course_id \notin DOMAIN db.courses
    THEN Raise(db, "COURSE_NOT_FOUND", NoExtra)
    ELSE IF /\ "professor_id" \in DOMAIN course_update
            /\ course_update.professor_id \notin DOMAIN db.professors
    THEN Raise(db, "PROFESSOR_NOT_FOUND", NoExtra)
    ELSE Ok([db EXCEPT !.courses[course_id] = ApplyUpdate(@, course_update)])

(* delete_course removing the enrollments of every course.                 *)
EnrollmentsAfterCourseDelete_all(db, course_id) == Del(db.enrollments, DOMAIN db.enrollments)

(* delete_course with its cascade left out.                                *)
EnrollmentsAfterCourseDelete_no_cascade(db, course_id) == db.enrollments

(* The enrollments collection after delete_course's loop.                  *)
EnrollmentsAfterCourseDelete(db, course_id) ==
    Del(db.enrollments, {k \in DOMAIN db.enrollments : db.enrollments[k].course_id = course_id})

(* delete_course that recomputes the gpa of the students whose enrollment  *)
(* it removed.                                                             *)
delete_course_recomputes(db, course_id) ==
    IF course_id \notin DOMAIN db.courses
    THEN Raise(db, "COURSE_NOT_FOUND", NoExtra)
    ELSE LET affected == {db.enrollments[k].student_id :
                             k \in {j \in DOMAIN db.enrollments :
                                       db.enrollments[j].course_id = course_id}}
             removed == [db EXCEPT !.enrollments = EnrollmentsAfterCourseDelete(db, course_id),
                                   !.courses = Del(@, {course_id})]
         IN  Ok([removed EXCEPT !.students =
                    [s \in DOMAIN removed.students |->
                        IF s \in affected THEN calculate_gpa(removed, s).students[s]
                        ELSE removed.students[s]]])

delete_course(db, course_id) ==
    IF course_id \notin DOMAIN db.courses
    THEN Raise(db, "COURSE_NOT_FOUND", NoExtra)
    ELSE Ok([db EXCEPT !.enrollments = EnrollmentsAfterCourseDelete(db, course_id),
                       !.courses = Del(@, {course_id})])

(* The capacity check that lets every request through.                     *)
AtCapacity_never(course) == FALSE

(* The capacity check with > for >=.                                       *)
AtCapacity_strict(course) == course.enrolled_students > course.max_capacity

(* Enhanced variant: enrollments.                                          *)
(* course.enrolled_students >= course.max_capacity                         *)
AtCapacity(course) == course.enrolled_students >= course.max_capacity

(* enroll_student_in_course with the duplicate check before the capacity   *)
(* check.                                                                  *)
enroll_student_in_course_duplicate_first(db, student_id, course_id) ==
    LET enrollment_id == <<"ENR", db.next_enrollment_id>> IN
    IF student_id \notin DOMAIN db.students
    THEN Raise(db, "STUDENT_NOT_FOUND", NoExtra)
    ELSE IF course_id \notin DOMAIN db.courses
    THEN Raise(db, "COURSE_NOT_FOUND", NoExtra)
    ELSE IF get_enrollment_key_by_ids(db, student_id, course_id) # {}
    THEN Raise(db, "DUPLICATE_ENROLLMENT", NoExtra)
    ELSE IF db.courses[course_id].enrolled_students >= db.courses[course_id].max_capacity
    THEN Raise(db, "ENROLLMENT_CAPACITY_EXCEEDED",
               [current_enrollment |-> db.courses[course_id].enrolled_students,
                max_capacity |-> db.courses[course_id].max_capacity])
    ELSE Ok([db EXCEPT !.enrollments = Put(@, enrollment_id,
                            [id |-> enrollment_id, student_id |-> student_id,
                             course_id |-> course_id, grade |-> NoGrade]),
                       !.courses[course_id].enrolled_students = @ + 1,
                       !.next_enrollment_id = @ + 1])

(* enroll_student_in_course that looks the course up before the student.   *)
enroll_student_in_course_course_first(db, student_id, course_id) ==
    LET enrollment_id == <<"ENR", db.next_enrollment_id>> IN
    IF course_id \notin DOMAIN db.courses
    THEN Raise(db, "COURSE_NOT_FOUND", NoExtra)
    ELSE IF student_id \notin DOMAIN db.students
    THEN Raise(db, "STUDENT_NOT_FOUND", NoExtra)
    ELSE IF AtCapacity(db.courses[course_id])
    THEN Raise(db, "ENROLLMENT_CAPACITY_EXCEEDED",
               [current_enrollment |-> db.courses[course_id].enrolled_students,
                max_capacity |-> db.courses[course_id].max_capacity])
    ELSE IF get_enrollment_key_by_ids(db, student_id, course_id) # {}
    THEN Raise(db, "DUPLICATE_ENROLLMENT", NoExtra)
    ELSE Ok([db EXCEPT !.enrollments = Put(@, enrollment_id,
                            [id |-> enrollment_id, student_id |-> student_id,
                             course_id |-> course_id, grade |-> NoGrade]),
                       !.courses[course_id].enrolled_students = @ + 1,
                       !.next_enrollment_id = @ + 1])

(* enroll_student_in_course that leaves the course's count as it is.       *)
enroll_student_in_course_no_increment(db, student_id, course_id) ==
    LET enrollment_id == <<"ENR", db.next_enrollment_id>> IN
    IF student_id \notin DOMAIN db.students
    THEN Raise(db, "STUDENT_NOT_FOUND", NoExtra)
    ELSE IF course_id \notin DOMAIN db.courses
    THEN Raise(db, "COURSE_NOT_FOUND", NoExtra)
    ELSE IF AtCapacity(db.courses[course_id])
    THEN Raise(db, "ENROLLMENT_CAPACITY_EXCEEDED",
               [current_enrollment |-> db.courses[course_id].enrolled_students,
                max_capacity |-> db.courses[course_id].max_capacity])
    ELSE IF get_enrollment_key_by_ids(db, student_id, course_id) # {}
    THEN Raise(db, "DUPLICATE_ENROLLMENT", NoExtra)
    ELSE Ok([db EXCEPT !.enrollments = Put(@, enrollment_id,
                            [id |-> enrollment_id, student_id |-> student_id,
                             course_id |-> course_id, grade |-> NoGrade]),
                       !.next_enrollment_id = @ + 1])

(* enroll_student_in_course that leaves next_enrollment_id as it is.       *)
enroll_student_in_course_same_id(db, student_id, course_id) ==
    LET enrollment_id == <<"ENR", db.next_enrollment_id>> IN
    IF student_id \notin DOMAIN db.students
    THEN Raise(db, "STUDENT_NOT_FOUND", NoExtra)
    ELSE IF course_id \notin DOMAIN db.courses
    THEN Raise(db, "COURSE_NOT_FOUND", NoExtra)
    ELSE IF AtCapacity(db.courses[course_id])
    THEN Raise(db, "ENROLLMENT_CAPACITY_EXCEEDED",
               [current_enrollment |-> db.courses[course_id].enrolled_students,
                max_capacity |-> db.courses[course_id].max_capacity])
    ELSE IF get_enrollment_key_by_ids(db, student_id, course_id) # {}
    THEN Raise(db, "DUPLICATE_ENROLLMENT", NoExtra)
    ELSE Ok([db EXCEPT !.enrollments = Put(@, enrollment_id,
                            [id |-> enrollment_id, student_id |-> student_id,
                             course_id |-> course_id, grade |-> NoGrade]),
                       !.courses[course_id].enrolled_students = @ + 1])

enroll_student_in_course(db, student_id, course_id) ==
    LET enrollment_id == <<"ENR", db.next_enrollment_id>> IN
    IF student_id \notin DOMAIN db.students
    THEN Raise(db, "STUDENT_NOT_FOUND", NoExtra)
    ELSE IF course_id \notin DOMAIN db.courses
    THEN Raise(db, "COURSE_NOT_FOUND", NoExtra)
    ELSE IF AtCapacity(db.courses[course_id])
    THEN Raise(db, "ENROLLMENT_CAPACITY_EXCEEDED",
               [current_enrollment |-> db.courses[course_id].enrolled_students,
                max_capacity |-> db.courses[course_id].max_capacity])
    ELSE IF get_enrollment_key_by_ids(db, student_id, course_id) # {}
    THEN Raise(db, "DUPLICATE_ENROLLMENT", NoExtra)
    ELSE Ok([db EXCEPT !.enrollments = Put(@, enrollment_id,
                            [id |-> enrollment_id, student_id |-> student_id,
                             course_id |-> course_id, grade |-> NoGrade]),
                       !.courses[course_id].enrolled_students = @ + 1,
                       !.next_enrollment_id = @ + 1])

(* The request is validated before the endpoint runs: the grade parameter  *)
(* is Query(..., regex="^[A-DF]$"), and a RequestValidationError is        *)
(* answered 422 "Validation failed" with the field's errors.               *)
update_enrollment_grade(db, student_id, course_id, grade) ==
    LET found == get_enrollment_key_by_ids(db, student_id, course_id) IN
    IF grade \notin {"A", "B", "C", "D", "F"}
    THEN Raise(db, "Validation failed", [field_errors |-> {"grade"}])
    ELSE IF found = {}
    THEN Raise(db, "ENROLLMENT_NOT_FOUND", NoExtra)
    ELSE LET enrollment_id == CHOOSE k \in found : TRUE
             graded == [db EXCEPT !.enrollments[enrollment_id].grade = Upper(grade)]
         IN  Ok(calculate_gpa(graded, student_id))

(* drop_course's decrement left out.                                       *)
CoursesAfterDrop_unchanged(db, course_id) == db.courses

(* The courses collection after drop_course's guarded decrement.           *)
CoursesAfterDrop(db, course_id) ==
    IF course_id \in DOMAIN db.courses
    THEN [db.courses EXCEPT ![course_id].enrolled_students = @ - 1]
    ELSE db.courses

(* drop_course that decrements the course before it looks the enrollment  *)
(* up.                                                                     *)
drop_course_decrement_first(db, student_id, course_id) ==
    LET found == get_enrollment_key_by_ids(db, student_id, course_id)
        decremented == [db EXCEPT !.courses = CoursesAfterDrop(db, course_id)]
    IN  IF found = {}
        THEN Raise(decremented, "ENROLLMENT_NOT_FOUND", NoExtra)
        ELSE LET enrollment_id == CHOOSE k \in found : TRUE
                 removed == [decremented EXCEPT !.enrollments = Del(@, {enrollment_id})]
             IN  Ok(calculate_gpa(removed, student_id))

(* drop_course without the closing calculate_gpa.                          *)
drop_course_no_recompute(db, student_id, course_id) ==
    LET found == get_enrollment_key_by_ids(db, student_id, course_id) IN
    IF found = {}
    THEN Raise(db, "ENROLLMENT_NOT_FOUND", NoExtra)
    ELSE LET enrollment_id == CHOOSE k \in found : TRUE
             decremented == [db EXCEPT !.courses = CoursesAfterDrop(db, course_id)]
         IN  Ok([decremented EXCEPT !.enrollments = Del(@, {enrollment_id})])

drop_course(db, student_id, course_id) ==
    LET found == get_enrollment_key_by_ids(db, student_id, course_id) IN
    IF found = {}
    THEN Raise(db, "ENROLLMENT_NOT_FOUND", NoExtra)
    ELSE LET enrollment_id == CHOOSE k \in found : TRUE
             decremented == [db EXCEPT !.courses = CoursesAfterDrop(db, course_id)]
             removed == [decremented EXCEPT !.enrollments = Del(@, {enrollment_id})]
         IN  Ok(calculate_gpa(removed, student_id))

---------------------------------------------------------------------------
(* Enhanced variant: analytics.                                            *)
(* The bucket of a student with "Not Graded" for every gpa of 0.           *)
GpaBucket_gpa_only(db, s) ==
    IF db.students[s].gpa = 0 THEN "Not Graded"
    ELSE IF 0 <= db.students[s].gpa /\ db.students[s].gpa < 100 THEN "0.0-0.99"
    ELSE IF 100 <= db.students[s].gpa /\ db.students[s].gpa < 200 THEN "1.0-1.99"
    ELSE IF 200 <= db.students[s].gpa /\ db.students[s].gpa < 300 THEN "2.0-2.99"
    ELSE IF 300 <= db.students[s].gpa /\ db.students[s].gpa <= 400 THEN "3.0-4.0"
    ELSE "None"

(* The bucket of a student with the last range closed below 4.0.           *)
GpaBucket_top_open(db, s) ==
    IF /\ db.students[s].gpa = 0
       /\ ~\E k \in DOMAIN db.enrollments :
              db.enrollments[k].student_id = s /\ db.enrollments[k].grade # NoGrade
    THEN "Not Graded"
    ELSE IF 0 <= db.students[s].gpa /\ db.students[s].gpa < 100 THEN "0.0-0.99"
    ELSE IF 100 <= db.students[s].gpa /\ db.students[s].gpa < 200 THEN "1.0-1.99"
    ELSE IF 200 <= db.students[s].gpa /\ db.students[s].gpa < 300 THEN "2.0-2.99"
    ELSE IF 300 <= db.students[s].gpa /\ db.students[s].gpa < 400 THEN "3.0-4.0"
    ELSE "None"

(* The bucket the loop of get_gpa_distribution counts student s in, "None" *)
(* if no branch of its if/elif chain is taken.                             *)
GpaBucket(db, s) ==
    IF /\ db.students[s].gpa = 0
       /\ ~\E k \in DOMAIN db.enrollments :
              db.enrollments[k].student_id = s /\ db.enrollments[k].grade # NoGrade
    THEN "Not Graded"
    ELSE IF 0 <= db.students[s].gpa /\ db.students[s].gpa < 100 THEN "0.0-0.99"
    ELSE IF 100 <= db.students[s].gpa /\ db.students[s].gpa < 200 THEN "1.0-1.99"
    ELSE IF 200 <= db.students[s].gpa /\ db.students[s].gpa < 300 THEN "2.0-2.99"
    ELSE IF 300 <= db.students[s].gpa /\ db.students[s].gpa <= 400 THEN "3.0-4.0"
    ELSE "None"

(* The keys of the distribution.                                           *)
GpaBuckets == {"0.0-0.99", "1.0-1.99", "2.0-2.99", "3.0-4.0", "Not Graded"}

(* GET /analytics/students/gpa-distribution: the dictionary returned.      *)
get_gpa_distribution(db) ==
    [b \in GpaBuckets |-> Cardinality({s \in DOMAIN db.students : GpaBucket(db, s) = b})]

(* The action of a call: the variables become the store the call leaves.   *)
(* A run stops creating at MaxCreated objects.                             *)
Call(result) ==
    \E r \in {result.db} :
        /\ Created(r) <= MaxCreated
        /\ professors' = r.professors
        /\ students' = r.students
        /\ courses' = r.courses
        /\ enrollments' = r.enrollments
        /\ next_professor_id' = r.next_professor_id
        /\ next_student_id' = r.next_student_id
        /\ next_course_id' = r.next_course_id
        /\ next_enrollment_id' = r.next_enrollment_id
        /\ UNCHANGED <<variant, requests, shadow>>

call_create_professor == \E e \in Emails, d \in Departments, h \in HireDates :
                            variant = "enhanced" /\ Call(create_professor(Db, e, d, h))
call_update_professor == \E p \in ProfessorIds, u \in ProfessorUpdates :
                            variant = "enhanced" /\ Call(update_professor(Db, p, u))
call_delete_professor == \E p \in ProfessorIds : variant = "enhanced" /\ Call(delete_professor(Db, p))
call_create_student == \E e \in Emails, y \in Years : variant = "enhanced" /\ Call(create_student(Db, e, y))
call_update_student == \E s \in StudentIds, u \in StudentUpdates :
                          variant = "enhanced" /\ Call(update_student(Db, s, u))
call_delete_student == \E s \in StudentIds : variant = "enhanced" /\ Call(delete_student(Db, s))
call_create_course ==
    \E co \in CourseCodes, cr \in CreditValues, m \in CapacityValues, p \in ProfessorIds :
        variant = "enhanced" /\ Call(create_course(Db, co, cr, m, p))
call_update_course == \E c \in CourseIds, u \in CourseUpdates :
                         variant = "enhanced" /\ Call(update_course(Db, c, u))
call_delete_course == \E c \in CourseIds : variant = "enhanced" /\ Call(delete_course(Db, c))
call_enroll_student_in_course == \E s \in StudentIds, c \in CourseIds :
                                    variant = "enhanced" /\ Call(enroll_student_in_course(Db, s, c))
call_update_enrollment_grade == \E s \in StudentIds, c \in CourseIds, g \in GradeInputs :
                                   variant = "enhanced" /\ Call(update_enrollment_grade(Db, s, c, g))
call_drop_course == \E s \in StudentIds, c \in CourseIds : variant = "enhanced" /\ Call(drop_course(Db, s, c))

NextEnhanced ==
    \/ call_create_professor
    \/ call_update_professor
    \/ call_delete_professor
    \/ call_create_student
    \/ call_update_student
    \/ call_delete_student
    \/ call_create_course
    \/ call_update_course
    \/ call_delete_course
    \/ call_enroll_student_in_course
    \/ call_update_enrollment_grade
    \/ call_drop_course

---------------------------------------------------------------------------
(* The simple variant.  Its PUT payloads carry every field of the Base     *)
(* schema (ProfessorUpdate, StudentUpdate and CourseUpdate extend it);     *)
(* only CourseUpdate.professor_id is optional.                             *)
SimpleEmails == {"alan.turing@bletchleypark.edu", "joan.clarke@example.com"}
SimpleProfessorUpdates == [email : SimpleEmails, department : Departments]
SimpleStudentUpdates == [email : SimpleEmails, year : Years]
SimpleCourseUpdates ==
    [credits : CreditValues, max_capacity : CapacityValues]
      \cup [credits : CreditValues, max_capacity : CapacityValues, professor_id : ProfessorIds]
SimpleGradeInputs == {"A", "b", "F", "E"}

(* The seeded store of the simple variant; it has no enrollment counter.   *)
SimpleSeed ==
    [professors |-> (1 :> [id |-> 1, email |-> "alan.turing@bletchleypark.edu",
                           department |-> "Computer Science", hire_date |-> "today"]),
     students |-> (1 :> [id |-> 1, email |-> "joan.clarke@example.com", year |-> 2, gpa |-> 0]),
     courses |-> (1 :> [id |-> 1, credits |-> 3, max_capacity |-> 50,
                        professor_id |-> 1, enrolled_students |-> 0]),
     enrollments |-> << >>,
     next_professor_id |-> 2,
     next_student_id |-> 2,
     next_course_id |-> 2,
     next_enrollment_id |-> 0]

(* The simple program after construction.                                  *)
InitSimple ==
    /\ variant = "simple"
    /\ professors = SimpleSeed.professors
    /\ students = SimpleSeed.students
    /\ courses = SimpleSeed.courses
    /\ enrollments = SimpleSeed.enrollments
    /\ next_professor_id = SimpleSeed.next_professor_id
    /\ next_student_id = SimpleSeed.next_student_id
    /\ next_course_id = SimpleSeed.next_course_id
    /\ next_enrollment_id = SimpleSeed.next_enrollment_id
    /\ requests = << >>
    /\ shadow = << >>

(* calculate_gpa of the simple variant that writes nothing.                *)
simple_calculate_gpa_skips(db, student_id) == db

(* calculate_gpa(student_id) of the simple variant: the store it leaves.   *)
simple_calculate_gpa(db, student_id) ==
    IF student_id \notin DOMAIN db.students THEN db
    ELSE [db EXCEPT !.students[student_id].gpa = GpaOf(db, student_id)]

(* Simple variant: professors.                                             *)
simple_create_professor(db, email, department) ==
    Ok([db EXCEPT !.professors = Put(@, db.next_professor_id,
                       [id |-> db.next_professor_id, email |-> email,
                        department |-> department, hire_date |-> "today"]),
                  !.next_professor_id = @ + 1])

simple_update_professor(db, professor_id, professor_update) ==
    IF professor_id \notin DOMAIN db.professors
    THEN Raise(db, "Professor not found", NoExtra)
    ELSE Ok([db EXCEPT !.professors[professor_id] = ApplyUpdate(@, professor_update)])

simple_delete_professor(db, professor_id) ==
    LET assigned == {c \in DOMAIN db.courses : db.courses[c].professor_id = professor_id}
    IN  IF professor_id \notin DOMAIN db.professors
        THEN Raise(db, "Professor not found", NoExtra)
        ELSE IF assigned # {}
        THEN Raise(db, "Cannot delete professor. Reassign courses first",
                   [course_id |-> CHOOSE c \in assigned : \A d \in assigned : c <= d])
        ELSE Ok([db EXCEPT !.professors = Del(@, {professor_id})])

(* Simple variant: students.                                               *)
simple_create_student(db, email, year) ==
    Ok([db EXCEPT !.students = Put(@, db.next_student_id,
                       [id |-> db.next_student_id, email |-> email, year |-> year, gpa |-> 0]),
                  !.next_student_id = @ + 1])

simple_update_student(db, student_id, student_update) ==
    IF student_id \notin DOMAIN db.students
    THEN Raise(db, "Student not found", NoExtra)
    ELSE Ok([db EXCEPT !.students[student_id] = ApplyUpdate(@, student_update)])

(* The courses collection after delete_student's loop; the course of an    *)
(* enrollment is read from its key.                                        *)
SimpleCoursesAfterStudentDelete(db, enrollments_to_delete) ==
    [c \in DOMAIN db.courses |->
        [db.courses[c] EXCEPT !.enrolled_students =
            @ - Cardinality({k \in enrollments_to_delete : k[2] = c})]]

simple_delete_student(db, student_id) ==
    LET enrollments_to_delete ==
            {k \in DOMAIN db.enrollments : db.enrollments[k].student_id = student_id}
    IN  IF student_id \notin DOMAIN db.students
        THEN Raise(db, "Student not found", NoExtra)
        ELSE Ok([db EXCEPT !.courses = SimpleCoursesAfterStudentDelete(db, enrollments_to_delete),
                           !.enrollments = Del(@, enrollments_to_delete),
                           !.students = Del(@, {student_id})])

(* Simple variant: courses.                                                *)
simple_create_course(db, credits, max_capacity, professor_id) ==
    IF professor_id \notin DOMAIN db.professors
    THEN Raise(db, "Professor with id {professor_id} not found", NoExtra)
    ELSE Ok([db EXCEPT !.courses = Put(@, db.next_course_id,
                            [id |-> db.next_course_id, credits |-> credits,
                             max_capacity |-> max_capacity, professor_id |-> professor_id,
                             enrolled_students |-> 0]),
                       !.next_course_id = @ + 1])

simple_update_course(db, course_id, course_update) ==
    IF course_id \notin DOMAIN db.courses
    THEN Raise(db, "Course not found", NoExtra)
    ELSE IF /\ "professor_id" \in DOMAIN course_update
            /\ course_update.professor_id \notin DOMAIN db.professors
    THEN Raise(db, "Professor with id {professor_id} not found", NoExtra)
    ELSE Ok([db EXCEPT !.courses[course_id] = ApplyUpdate(@, course_update)])

(* The enrollments collection after the simple delete_course's loop.       *)
SimpleEnrollmentsAfterCourseDelete(db, course_id) ==
    Del(db.enrollments, {k \in DOMAIN db.enrollments : db.enrollments[k].course_id = course_id})

simple_delete_course(db, course_id) ==
    IF course_id \notin DOMAIN db.courses
    THEN Raise(db, "Course not found", NoExtra)
    ELSE Ok([db EXCEPT !.enrollments = SimpleEnrollmentsAfterCourseDelete(db, course_id),
                       !.courses = Del(@, {course_id})])

(* Simple variant: enrollments.                                            *)
(* (student_id, course_id) in db["enrollments"]                            *)
SimpleEnrolled(db, student_id, course_id) == <<student_id, course_id>> \in DOMAIN db.enrollments

simple_enroll_student_in_course(db, student_id, course_id) ==
    IF student_id \notin DOMAIN db.students
    THEN Raise(db, "Student not found", NoExtra)
    ELSE IF course_id \notin DOMAIN db.courses
    THEN Raise(db, "Course not found", NoExtra)
    ELSE IF AtCapacity(db.courses[course_id])
    THEN Raise(db, "Course is full", NoExtra)
    ELSE IF SimpleEnrolled(db, student_id, course_id)
    THEN Raise(db, "Student is already enrolled in this course", NoExtra)
    ELSE Ok([db EXCEPT !.enrollments = Put(@, <<student_id, course_id>>,
                            [student_id |-> student_id, course_id |-> course_id,
                             grade |-> NoGrade]),
                       !.courses[course_id].enrolled_students = @ + 1])

simple_update_enrollment_grade(db, student_id, course_id, grade) ==
    LET enrollment_key == <<student_id, course_id>> IN
    IF Upper(grade) \notin DOMAIN GRADE_TO_POINTS
    THEN Raise(db, "Invalid grade. Must be one of A, B, C, D, F.", NoExtra)
    ELSE IF ~SimpleEnrolled(db, student_id, course_id)
    THEN Raise(db, "Enrollment record not found", NoExtra)
    ELSE LET graded == [db EXCEPT !.enrollments[enrollment_key].grade = Upper(grade)]
         IN  Ok(simple_calculate_gpa(graded, student_id))

simple_drop_course(db, student_id, course_id) ==
    LET enrollment_key == <<student_id, course_id>> IN
    IF ~SimpleEnrolled(db, student_id, course_id)
    THEN Raise(db, "Enrollment record not found", NoExtra)
    ELSE LET decremented == [db EXCEPT !.courses = CoursesAfterDrop(db, course_id)]
             removed == [decremented EXCEPT !.enrollments = Del(@, {enrollment_key})]
         IN  Ok(simple_calculate_gpa(removed, student_id))

call_simple_create_professor == \E e \in SimpleEmails, d \in Departments :
                                   variant = "simple" /\ Call(simple_create_professor(Db, e, d))
call_simple_update_professor == \E p \in ProfessorIds, u \in SimpleProfessorUpdates :
                                   variant = "simple" /\ Call(simple_update_professor(Db, p, u))
call_simple_delete_professor == \E p \in ProfessorIds : variant = "simple" /\ Call(simple_delete_professor(Db, p))
call_simple_create_student == \E e \in SimpleEmails, y \in Years :
                                 variant = "simple" /\ Call(simple_create_student(Db, e, y))
call_simple_update_student == \E s \in StudentIds, u \in SimpleStudentUpdates :
                                 variant = "simple" /\ Call(simple_update_student(Db, s, u))
call_simple_delete_student == \E s \in StudentIds : variant = "simple" /\ Call(simple_delete_student(Db, s))
call_simple_create_course == \E cr \in CreditValues, m \in CapacityValues, p \in ProfessorIds :
                                variant = "simple" /\ Call(simple_create_course(Db, cr, m, p))
call_simple_update_course == \E c \in CourseIds, u \in SimpleCourseUpdates :
                                variant = "simple" /\ Call(simple_update_course(Db, c, u))
call_simple_delete_course == \E c \in CourseIds : variant = "simple" /\ Call(simple_delete_course(Db, c))
call_simple_enroll_student_in_course == \E s \in StudentIds, c \in CourseIds :
                                           variant = "simple" /\ Call(simple_enroll_student_in_course(Db, s, c))
call_simple_update_enrollment_grade ==
    \E s \in StudentIds, c \in CourseIds, g \in SimpleGradeInputs :
        variant = "simple" /\ Call(simple_update_enrollment_grade(Db, s, c, g))
call_simple_drop_course == \E s \in StudentIds, c \in CourseIds :
                              variant = "simple" /\ Call(simple_drop_course(Db, s, c))

NextSimple ==
    \/ call_simple_create_professor
    \/ call_simple_update_professor
    \/ call_simple_delete_professor
    \/ call_simple_create_student
    \/ call_simple_update_student
    \/ call_simple_delete_student
    \/ call_simple_create_course
    \/ call_simple_update_course
    \/ call_simple_delete_course
    \/ call_simple_enroll_student_in_course
    \/ call_simple_update_enrollment_grade
    \/ call_simple_drop_course

---------------------------------------------------------------------------
(* Runs of the enhanced variant.                                           *)
Spec == InitEnhanced /\ [][NextEnhanced]_vars

(* Runs of the enhanced variant's course endpoints with course codes of    *)
(* every kind in the requests.                                             *)
CourseCodeUpdates == PartialRecords([code : CodeInputs, credits : CreditValues])

call_create_course_with_code ==
    \E co \in CodeInputs, cr \in CreditValues, m \in CapacityValues, p \in ProfessorIds :
        variant = "enhanced" /\ Call(create_course(Db, co, cr, m, p))
call_update_course_with_code ==
    \E c \in CourseIds, u \in CourseCodeUpdates :
        variant = "enhanced" /\ Call(update_course(Db, c, u))

NextCourseCode ==
    \/ call_create_course_with_code
    \/ call_update_course_with_code
    \/ call_delete_course

SpecCourseCode == InitEnhanced /\ [][NextCourseCode]_vars

(* Runs of either variant.                                                 *)
Init == InitEnhanced \/ InitSimple
Next == NextEnhanced \/ NextSimple
SpecBoth == Init /\ [][Next]_vars

---------------------------------------------------------------------------
(* The calls of the variant a run is of.                                   *)
Enroll(db, student_id, course_id) ==
    IF variant = "enhanced" THEN enroll_student_in_course(db, student_id, course_id)
    ELSE simple_enroll_student_in_course(db, student_id, course_id)

Grade(db, student_id, course_id, grade) ==
    IF variant = "enhanced" THEN update_enrollment_grade(db, student_id, course_id, grade)
    ELSE simple_update_enrollment_grade(db, student_id, course_id, grade)

Drop(db, student_id, course_id) ==
    IF variant = "enhanced" THEN drop_course(db, student_id, course_id)
    ELSE simple_drop_course(db, student_id, course_id)

DeleteStudent(db, student_id) ==
    IF variant = "enhanced" THEN delete_student(db, student_id)
    ELSE simple_delete_student(db, student_id)

DeleteCourse(db, course_id) ==
    IF variant = "enhanced" THEN delete_course(db, course_id)
    ELSE simple_delete_course(db, course_id)

(* What enroll raises for a full course.                                   *)
CapacityError == IF variant = "enhanced" THEN "ENROLLMENT_CAPACITY_EXCEEDED" ELSE "Course is full"

(* What enroll raises for a missing student, a missing course and an       *)
(* enrolled pair.                                                          *)
StudentNotFoundError == IF variant = "enhanced" THEN "STUDENT_NOT_FOUND" ELSE "Student not found"

CourseNotFoundError == IF variant = "enhanced" THEN "COURSE_NOT_FOUND" ELSE "Course not found"

DuplicateError ==
    IF variant = "enhanced" THEN "DUPLICATE_ENROLLMENT"
    ELSE "Student is already enrolled in this course"

CreateCourse(db, credits, max_capacity, professor_id) ==
    IF variant = "enhanced"
    THEN create_course(db, <<"C", "S", "1", "0", "1">>, credits, max_capacity, professor_id)
    ELSE simple_create_course(db, credits, max_capacity, professor_id)

UpdateCourse(db, course_id, course_update) ==
    IF variant = "enhanced" THEN update_course(db, course_id, course_update)
    ELSE simple_update_course(db, course_id, course_update)

DeleteProfessor(db, professor_id) ==
    IF variant = "enhanced" THEN delete_professor(db, professor_id)
    ELSE simple_delete_professor(db, professor_id)

UpdateProfessor(db, professor_id, professor_update) ==
    IF variant = "enhanced" THEN update_professor(db, professor_id, professor_update)
    ELSE simple_update_professor(db, professor_id, professor_update)

UpdateStudent(db, student_id, student_update) ==
    IF variant = "enhanced" THEN update_student(db, student_id, student_update)
    ELSE simple_update_student(db, student_id, student_update)

(* The payloads of a PUT /professors and of a PUT /students request.       *)
ProfessorUpdatesOfVariant ==
    IF variant = "enhanced" THEN ProfessorUpdates ELSE SimpleProfessorUpdates

StudentUpdatesOfVariant == IF variant = "enhanced" THEN StudentUpdates ELSE SimpleStudentUpdates

(* Parsing a request body into an update schema that keeps the keys the    *)
(* schema does not declare.                                                *)
ParseBody_keeps_extra(body, fields) == body

(* Parsing a request body into an update schema: the schema's fields are   *)
(* read from the body, and keys the schema does not declare are ignored    *)
(* (the schemas set no `extra` configuration).                             *)
ParseBody(body, fields) == [f \in DOMAIN body \cap fields |-> body[f]]

(* The fields the update schemas declare, of those the model carries.      *)
ProfessorUpdateFields == {"email", "department"}

StudentUpdateFields == {"email", "year"}

CourseUpdateFields ==
    IF variant = "enhanced" THEN {"code", "credits", "max_capacity", "professor_id"}
    ELSE {"credits", "max_capacity", "professor_id"}

(* Keys a client may add to a body although no update schema declares them. *)
ExtraKeys == [id |-> 7, gpa |-> 400, academic_probation |-> TRUE,
              enrolled_students |-> 0, hire_date |-> "2000-01-01"]

(* The bodies of a PUT request: a payload, alone or with the extra keys.   *)
BodiesOf(payloads) == payloads \cup {ApplyUpdate(u, ExtraKeys) : u \in payloads}

(* The payloads of a PUT /courses request.                                 *)
CourseUpdatesOfVariant == IF variant = "enhanced" THEN CourseUpdates ELSE SimpleCourseUpdates

(* What the course endpoints raise for an absent professor.                *)
ProfessorNotFoundError ==
    IF variant = "enhanced" THEN "PROFESSOR_NOT_FOUND"
    ELSE "Professor with id {professor_id} not found"

(* What grade and drop raise when the pair has no enrollment.              *)
EnrollmentNotFoundError ==
    IF variant = "enhanced" THEN "ENROLLMENT_NOT_FOUND" ELSE "Enrollment record not found"

(* The derived fields of a student record: gpa, and academic_probation     *)
(* where the variant has it.                                               *)
DerivedFields(student) ==
    IF "academic_probation" \in DOMAIN student
    THEN <<student.gpa, student.academic_probation>>
    ELSE <<student.gpa>>

---------------------------------------------------------------------------
(* The two programs side by side: the variables hold the store of an       *)
(* enhanced program and `shadow` the store of a simple program, and every  *)
(* call is sent to both.  Both are first brought to the same students,     *)
(* courses and enrollments by the same calls: the seeded enrollment of     *)
(* student 1 in course 1 (which the enhanced seed holds and the simple     *)
(* program gets by an enroll call), a capacity for course 1, a second      *)
(* student and a second course.                                            *)
LockstepCapacities == {1, 2}

LockstepGrades == {"A", "B", "F", "E"}

PreparedEnhanced(m1, m2) ==
    LET a == update_course(EnhancedSeed, 1, [max_capacity |-> m1]).db
        b == create_student(a, "grace.hopper@yale.edu", 2).db
    IN  create_course(b, <<"C", "S", "1", "0", "1">>, 4, m2, 1).db

PreparedSimple(m1, m2) ==
    LET e == simple_enroll_student_in_course(SimpleSeed, 1, 1).db
        a == simple_update_course(e, 1, [credits |-> 3, max_capacity |-> m1]).db
        b == simple_create_student(a, "grace.hopper@yale.edu", 2).db
    IN  simple_create_course(b, 4, m2, 1).db

InitLockstep ==
    \E m1 \in LockstepCapacities, m2 \in LockstepCapacities :
        /\ variant = "enhanced"
        /\ professors = PreparedEnhanced(m1, m2).professors
        /\ students = PreparedEnhanced(m1, m2).students
        /\ courses = PreparedEnhanced(m1, m2).courses
        /\ enrollments = PreparedEnhanced(m1, m2).enrollments
        /\ next_professor_id = PreparedEnhanced(m1, m2).next_professor_id
        /\ next_student_id = PreparedEnhanced(m1, m2).next_student_id
        /\ next_course_id = PreparedEnhanced(m1, m2).next_course_id
        /\ next_enrollment_id = PreparedEnhanced(m1, m2).next_enrollment_id
        /\ requests = << >>
        /\ shadow = PreparedSimple(m1, m2)

(* A call sent to both programs: each store becomes the store its program  *)
(* leaves.  A run stops enrolling at MaxCreated enrollments beyond the     *)
(* seeded one.                                                             *)
CallBoth(enhanced_result, simple_result) ==
    \E r \in {enhanced_result.db} :
        /\ r.next_enrollment_id - EnhancedSeed.next_enrollment_id <= MaxCreated
        /\ professors' = r.professors
        /\ students' = r.students
        /\ courses' = r.courses
        /\ enrollments' = r.enrollments
        /\ next_professor_id' = r.next_professor_id
        /\ next_student_id' = r.next_student_id
        /\ next_course_id' = r.next_course_id
        /\ next_enrollment_id' = r.next_enrollment_id
        /\ shadow' = simple_result.db
        /\ UNCHANGED <<variant, requests>>

lockstep_enroll ==
    \E s \in StudentIds, c \in CourseIds :
        CallBoth(enroll_student_in_course(Db, s, c), simple_enroll_student_in_course(shadow, s, c))

lockstep_grade ==
    \E s \in StudentIds, c \in CourseIds, g \in LockstepGrades :
        CallBoth(update_enrollment_grade(Db, s, c, g),
                 simple_update_enrollment_grade(shadow, s, c, g))

lockstep_drop ==
    \E s \in StudentIds, c \in CourseIds :
        CallBoth(drop_course(Db, s, c), simple_drop_course(shadow, s, c))

lockstep_delete_student ==
    \E s \in StudentIds : CallBoth(delete_student(Db, s), simple_delete_student(shadow, s))

lockstep_delete_course ==
    \E c \in CourseIds : CallBoth(delete_course(Db, c), simple_delete_course(shadow, c))

NextLockstep ==
    \/ lockstep_enroll
    \/ lockstep_grade
    \/ lockstep_drop
    \/ lockstep_delete_student
    \/ lockstep_delete_course

SpecLockstep == InitLockstep /\ [][NextLockstep]_vars

(* The (student_id, course_id, grade) triples of a store's enrollments.    *)
Triples(db) ==
    {<<db.enrollments[k].student_id, db.enrollments[k].course_id, db.enrollments[k].grade>> :
        k \in DOMAIN db.enrollments}

(* The enrollment records of a pair.                                       *)
RecordsOf(db, student_id, course_id) ==
    {k \in DOMAIN db.enrollments : /\ db.enrollments[k].student_id = student_id
                                   /\ db.enrollments[k].course_id = course_id}

(* The key enroll inserts the record under.                                *)
EnrollmentKey(student_id, course_id, enrollment_id) ==
    IF variant = "enhanced" THEN <<"ENR", enrollment_id>> ELSE <<student_id, course_id>>

(* The record enroll inserts.                                              *)
NewEnrollment(student_id, course_id, enrollment_id) ==
    IF variant = "enhanced"
    THEN [id |-> <<"ENR", enrollment_id>>, student_id |-> student_id,
          course_id |-> course_id, grade |-> NoGrade]
    ELSE [student_id |-> student_id, course_id |-> course_id, grade |-> NoGrade]

---------------------------------------------------------------------------
(* Enroll requests served by worker threads.  Both programs declare the    *)
(* endpoint with `def`, so the framework runs each request on a thread of  *)
(* its pool, and the interpreter may switch threads between any two        *)
(* statements of enroll_student_in_course, and between the load and the    *)
(* store of a += on a shared value.  A request is the record of its body,  *)
(* the statement it is at (pc), its locals (enrollment_id, and the value   *)
(* a += has loaded) and its response once it has one.                      *)
MaxRequests == 2

RequestIds == 1 .. MaxRequests

StoreUnchanged ==
    UNCHANGED <<shadow, variant, professors, students, courses, enrollments,
                next_professor_id, next_student_id, next_course_id, next_enrollment_id>>

(* Request i moves to statement pc.                                        *)
Goto(i, pc) == requests' = [requests EXCEPT ![i].pc = pc]

(* Request i ends with a response.                                         *)
Respond(i, response) ==
    requests' = [requests EXCEPT ![i].pc = "done", ![i].response = response]

(* A request arrives and a thread takes it.                                *)
receive_enroll ==
    \E s \in StudentIds, c \in CourseIds :
        /\ Cardinality(DOMAIN requests) < MaxRequests
        /\ requests' = Put(requests, Cardinality(DOMAIN requests) + 1,
                           [student_id |-> s, course_id |-> c, pc |-> "get_student",
                            enrollment_id |-> 0, loaded |-> 0, response |-> "None"])
        /\ StoreUnchanged

(* student = db["students"].get(...); if not student: raise                *)
enroll_get_student ==
    \E i \in DOMAIN requests :
        /\ requests[i].pc = "get_student"
        /\ IF requests[i].student_id \notin DOMAIN students
           THEN Respond(i, StudentNotFoundError)
           ELSE Goto(i, "get_course")
        /\ StoreUnchanged

(* course = db["courses"].get(...); if not course: raise                   *)
enroll_get_course ==
    \E i \in DOMAIN requests :
        /\ requests[i].pc = "get_course"
        /\ IF requests[i].course_id \notin DOMAIN courses
           THEN Respond(i, CourseNotFoundError)
           ELSE Goto(i, "check_capacity")
        /\ StoreUnchanged

(* if course.enrolled_students >= course.max_capacity: raise               *)
enroll_check_capacity ==
    \E i \in DOMAIN requests :
        /\ requests[i].pc = "check_capacity"
        /\ IF AtCapacity(courses[requests[i].course_id])
           THEN Respond(i, CapacityError)
           ELSE Goto(i, "check_duplicate")
        /\ StoreUnchanged

(* if the pair has an enrollment: raise                                    *)
enroll_check_duplicate ==
    \E i \in DOMAIN requests :
        /\ requests[i].pc = "check_duplicate"
        /\ IF RecordsOf(Db, requests[i].student_id, requests[i].course_id) # {}
           THEN Respond(i, DuplicateError)
           ELSE Goto(i, IF variant = "enhanced" THEN "new_id" ELSE "insert")
        /\ StoreUnchanged

(* enrollment_id = f"ENR{next_enrollment_id}"                              *)
enroll_new_id ==
    \E i \in DOMAIN requests :
        /\ requests[i].pc = "new_id"
        /\ requests' = [requests EXCEPT ![i].pc = "insert",
                                        ![i].enrollment_id = next_enrollment_id]
        /\ StoreUnchanged

(* db["enrollments"][key] = new_enrollment                                 *)
enroll_insert ==
    \E i \in DOMAIN requests :
        /\ requests[i].pc = "insert"
        /\ enrollments' = Put(enrollments,
                              EnrollmentKey(requests[i].student_id, requests[i].course_id,
                                            requests[i].enrollment_id),
                              NewEnrollment(requests[i].student_id, requests[i].course_id,
                                            requests[i].enrollment_id))
        /\ Goto(i, "load_enrolled")
        /\ UNCHANGED <<shadow, variant, professors, students, courses, next_professor_id,
                       next_student_id, next_course_id, next_enrollment_id>>

(* course.enrolled_students += 1: the load                                 *)
enroll_load_enrolled ==
    \E i \in DOMAIN requests :
        /\ requests[i].pc = "load_enrolled"
        /\ requests' = [requests EXCEPT
                           ![i].pc = "store_enrolled",
                           ![i].loaded = courses[requests[i].course_id].enrolled_students]
        /\ StoreUnchanged

(* course.enrolled_students += 1: the store                                *)
enroll_store_enrolled ==
    \E i \in DOMAIN requests :
        /\ requests[i].pc = "store_enrolled"
        /\ courses' = [courses EXCEPT
                          ![requests[i].course_id].enrolled_students = requests[i].loaded + 1]
        /\ IF variant = "enhanced" THEN Goto(i, "load_next") ELSE Respond(i, "OK")
        /\ UNCHANGED <<shadow, variant, professors, students, enrollments, next_professor_id,
                       next_student_id, next_course_id, next_enrollment_id>>

(* next_enrollment_id += 1: the load                                       *)
enroll_load_next ==
    \E i \in DOMAIN requests :
        /\ requests[i].pc = "load_next"
        /\ requests' = [requests EXCEPT ![i].pc = "store_next",
                                        ![i].loaded = next_enrollment_id]
        /\ StoreUnchanged

(* next_enrollment_id += 1: the store, and the return                      *)
enroll_store_next ==
    \E i \in DOMAIN requests :
        /\ requests[i].pc = "store_next"
        /\ next_enrollment_id' = requests[i].loaded + 1
        /\ Respond(i, "OK")
        /\ UNCHANGED <<shadow, variant, professors, students, courses, enrollments,
                       next_professor_id, next_student_id, next_course_id>>

(* Students and courses are created by calls that run to completion; the   *)
(* enroll requests run statement by statement.                             *)
NextThreads ==
    \/ call_create_student
    \/ call_create_course
    \/ call_simple_create_student
    \/ call_simple_create_course
    \/ receive_enroll
    \/ enroll_get_student
    \/ enroll_get_course
    \/ enroll_check_capacity
    \/ enroll_check_duplicate
    \/ enroll_new_id
    \/ enroll_insert
    \/ enroll_load_enrolled
    \/ enroll_store_enrolled
    \/ enroll_load_next
    \/ enroll_store_next

SpecThreads == Init /\ [][NextThreads]_vars

(* The requests that have inserted their enrollment record.                *)
Inserted ==
    {i \in DOMAIN requests :
        \/ requests[i].pc \in {"load_enrolled", "store_enrolled", "load_next", "store_next"}
        \/ requests[i].response = "OK"}

(* next_enrollment_id is above the number of every ENR key in the store.   *)
CounterAhead(db) == \A k \in DOMAIN db.enrollments : k[2] < db.next_enrollment_id

(* The requests that have passed the capacity check of a course.           *)
PassedCapacityCheck(course_id) ==
    {i \in DOMAIN requests :
        /\ requests[i].course_id = course_id
        /\ \/ requests[i].pc \in {"check_duplicate", "new_id", "insert", "load_enrolled",
                                   "store_enrolled", "load_next", "store_next"}
           \/ requests[i].response \in {"OK", DuplicateError}}

---------------------------------------------------------------------------
(* C1: in every reachable state, for every course in the store,            *)
(* enrolled_students is the number of enrollment records whose course_id   *)
(* is the course's id.                                                     *)
C1_EnrolledCountMatches ==
    \A c \in DOMAIN courses :
        courses[c].enrolled_students =
            Cardinality({k \in DOMAIN enrollments : enrollments[k].course_id = c})

(* The seeded enrollment has been removed and a later enroll has put       *)
(* student 1 back into course 1: a decrement and an increment have acted.  *)
C1_Witness ==
    /\ variant = "enhanced"
    /\ <<"ENR", 1>> \notin DOMAIN enrollments
    /\ <<"ENR", 2>> \in DOMAIN enrollments
    /\ 1 \in DOMAIN courses
    /\ enrollments[<<"ENR", 2>>].course_id = 1

(* C2: in every reachable state of either variant there is at most one     *)
(* enrollment record for a (student_id, course_id) pair.                   *)
C2_OneEnrollmentPerPair ==
    \A j, k \in DOMAIN enrollments :
        (/\ enrollments[j].student_id = enrollments[k].student_id
         /\ enrollments[j].course_id = enrollments[k].course_id) => j = k

(* An enroll call has enrolled a pair in a course with room left: only the *)
(* duplicate check stands between a repeated enroll and a second record.   *)
C2_Witness ==
    \E k \in DOMAIN enrollments :
        /\ variant = "enhanced" => k[2] >= 2
        /\ enrollments[k].course_id \in DOMAIN courses
        /\ enrollments[k].student_id \in DOMAIN students
        /\ courses[enrollments[k].course_id].enrolled_students
             < courses[enrollments[k].course_id].max_capacity
        /\ Enroll(Db, enrollments[k].student_id, enrollments[k].course_id).response # "OK"

(* C3: in every reachable state of the enhanced variant no two distinct    *)
(* entities among the professors and the students hold the same email,     *)
(* a professor and a student with the same numeric id included.            *)
C3_EmailsUnique ==
    /\ \A p, q \in DOMAIN professors : professors[p].email = professors[q].email => p = q
    /\ \A s, u \in DOMAIN students : students[s].email = students[u].email => s = u
    /\ \A p \in DOMAIN professors, s \in DOMAIN students : professors[p].email # students[s].email

(* C4: in every reachable state, for every course,                         *)
(* 0 <= enrolled_students <= max_capacity.                                 *)
C4_EnrolledWithinCapacity ==
    \A c \in DOMAIN courses :
        /\ 0 <= courses[c].enrolled_students
        /\ courses[c].enrolled_students <= courses[c].max_capacity

(* C5: in every reachable state every student's stored gpa is the          *)
(* credit-weighted average of the grade points over the student's graded   *)
(* enrollments, rounded to 2 decimals, or 0.0 if none is graded.           *)
C5_GpaIsWeightedAverage ==
    \A s \in DOMAIN students :
        LET K == {k \in DOMAIN enrollments : /\ enrollments[k].student_id = s
                                             /\ enrollments[k].grade # NoGrade}
            credits(k) == IF enrollments[k].course_id \in DOMAIN courses
                          THEN courses[enrollments[k].course_id].credits ELSE 0
            total_points == SumOver([k \in K |-> GRADE_TO_POINTS[enrollments[k].grade] * credits(k)], K)
            total_credits == SumOver([k \in K |-> credits(k)], K)
        IN  students[s].gpa = IF K = {} \/ total_credits = 0 THEN 0
                              ELSE Round2(total_points, total_credits)

(* C6: in every reachable state of the enhanced variant every student's    *)
(* academic_probation flag is true if and only if the stored gpa is below  *)
(* 2.0.                                                                    *)
C6_ProbationIffGpaBelowTwo ==
    \A s \in DOMAIN students : students[s].academic_probation <=> (students[s].gpa < 200)

(* C7: in every reachable state every enrollment record's student_id is    *)
(* the id of a student in the store and its course_id the id of a course   *)
(* in the store, as is the course id that the simple variant reads from    *)
(* the record's key.                                                       *)
C7_EnrollmentsReferToStore ==
    \A k \in DOMAIN enrollments :
        /\ enrollments[k].student_id \in DOMAIN students
        /\ enrollments[k].course_id \in DOMAIN courses
        /\ variant = "simple" => k[2] \in DOMAIN courses

(* Course 1 has been deleted with its enrollments, and an enrollment in    *)
(* another course is in the store.                                         *)
C7_Witness ==
    /\ 1 \notin DOMAIN courses
    /\ DOMAIN enrollments # {}

(* C8: for an existing student and an existing course with                 *)
(* enrolled_students = max_capacity, enroll fails with the capacity error  *)
(* and leaves the courses, the enrollments and the enrollment id counter   *)
(* as they were.                                                           *)
C8_EnrollAtCapacityFails ==
    \A s \in DOMAIN students, c \in DOMAIN courses :
        courses[c].enrolled_students = courses[c].max_capacity =>
            LET r == Enroll(Db, s, c)
            IN  /\ r.response = CapacityError
                /\ r.db.courses = courses
                /\ r.db.enrollments = enrollments
                /\ r.db.next_enrollment_id = next_enrollment_id

(* A course is full and a student who is not enrolled in it is in the      *)
(* store.                                                                  *)
C8_Witness ==
    \E s \in DOMAIN students, c \in DOMAIN courses :
        /\ courses[c].enrolled_students = courses[c].max_capacity
        /\ RecordsOf(Db, s, c) = {}

(* C9, as the code has it: a second enroll of a pair that an enroll call   *)
(* has enrolled fails, with the capacity error if the course is full by    *)
(* then and with the duplicate error otherwise, and exactly one record of  *)
(* the pair is in the store afterwards.                                    *)
C9_SecondEnrollFails ==
    \A k \in DOMAIN enrollments :
        (k[2] >= 2 /\ enrollments[k].course_id \in DOMAIN courses) =>
            LET s == enrollments[k].student_id
                c == enrollments[k].course_id
                r == enroll_student_in_course(Db, s, c)
            IN  /\ r.response = IF courses[c].enrolled_students >= courses[c].max_capacity
                                THEN "ENROLLMENT_CAPACITY_EXCEEDED"
                                ELSE "DUPLICATE_ENROLLMENT"
                /\ Cardinality(RecordsOf(r.db, s, c)) = 1

(* C9 as stated: the second enroll always fails with the duplicate error.  *)
C9_SecondEnrollIsDuplicate ==
    \A k \in DOMAIN enrollments :
        (k[2] >= 2 /\ enrollments[k].course_id \in DOMAIN courses) =>
            LET s == enrollments[k].student_id
                c == enrollments[k].course_id
                r == enroll_student_in_course(Db, s, c)
            IN  /\ r.response = "DUPLICATE_ENROLLMENT"
                /\ Cardinality(RecordsOf(r.db, s, c)) = 1

(* An enroll call has enrolled a pair in a course that is now full.        *)
C9_Witness ==
    \E k \in DOMAIN enrollments :
        /\ k[2] >= 2
        /\ enrollments[k].course_id \in DOMAIN courses
        /\ courses[enrollments[k].course_id].enrolled_students
             >= courses[enrollments[k].course_id].max_capacity

(* C10: an enroll, grade or drop call that fails leaves the whole store    *)
(* (the four collections and the id counters) as it was.                   *)
C10_FailedCallLeavesStore ==
    \A s \in StudentIds, c \in CourseIds :
        /\ Enroll(Db, s, c).response # "OK" => Enroll(Db, s, c).db = Db
        /\ Drop(Db, s, c).response # "OK" => Drop(Db, s, c).db = Db
        /\ \A g \in GradeInputs \cup SimpleGradeInputs :
              Grade(Db, s, c, g).response # "OK" => Grade(Db, s, c, g).db = Db

(* The store holds a full course, an enrolled pair, and an existing        *)
(* student and course with no enrollment between them: enroll fails for    *)
(* the pair and for the full course, grade and drop where no enrollment is.*)
C10_Witness ==
    /\ \E c \in DOMAIN courses : courses[c].enrolled_students >= courses[c].max_capacity
    /\ \E s \in DOMAIN students, c \in DOMAIN courses :
          /\ RecordsOf(Db, s, c) = {}
          /\ Drop(Db, s, c).response # "OK"
    /\ \E s \in DOMAIN students, c \in DOMAIN courses :
          /\ RecordsOf(Db, s, c) # {}
          /\ Enroll(Db, s, c).response # "OK"

(* C11: delete_student of an existing student removes the student and     *)
(* exactly the enrollment records of that student, takes one off           *)
(* enrolled_students of each course the student was enrolled in, and       *)
(* leaves every other enrollment, every other course's count, every other  *)
(* student and the professors as they were.                                *)
C11_DeleteStudentFrame ==
    \A s \in DOMAIN students :
        LET r == DeleteStudent(Db, s)
            kept == {k \in DOMAIN enrollments : enrollments[k].student_id # s}
        IN  /\ r.response = "OK"
            /\ r.db.students = [u \in DOMAIN students \ {s} |-> students[u]]
            /\ r.db.enrollments = [k \in kept |-> enrollments[k]]
            /\ DOMAIN r.db.courses = DOMAIN courses
            /\ \A c \in DOMAIN courses :
                  r.db.courses[c] =
                      IF \E k \in DOMAIN enrollments :
                            enrollments[k].student_id = s /\ enrollments[k].course_id = c
                      THEN [courses[c] EXCEPT !.enrolled_students = @ - 1]
                      ELSE courses[c]
            /\ r.db.professors = professors

(* Two students are in the store, one enrolled in a course that the other  *)
(* is enrolled in too.                                                     *)
C11_Witness ==
    \E j, k \in DOMAIN enrollments :
        /\ enrollments[j].student_id # enrollments[k].student_id
        /\ enrollments[j].course_id = enrollments[k].course_id
        /\ enrollments[j].student_id \in DOMAIN students

(* C12: delete_course of an existing course removes the course and exactly *)
(* the enrollment records of that course, and leaves the enrollments of    *)
(* other courses, every other course and the professors as they were.      *)
C12_DeleteCourseFrame ==
    \A c \in DOMAIN courses :
        LET r == DeleteCourse(Db, c)
            kept == {k \in DOMAIN enrollments : enrollments[k].course_id # c}
        IN  /\ r.response = "OK"
            /\ r.db.courses = [d \in DOMAIN courses \ {c} |-> courses[d]]
            /\ r.db.enrollments = [k \in kept |-> enrollments[k]]
            /\ r.db.professors = professors

(* Two courses are in the store, each with an enrollment.                  *)
C12_Witness ==
    \E j, k \in DOMAIN enrollments :
        /\ enrollments[j].course_id # enrollments[k].course_id
        /\ enrollments[j].course_id \in DOMAIN courses
        /\ enrollments[k].course_id \in DOMAIN courses

(* C13: delete_professor of an existing professor fails with               *)
(* PROFESSOR_HAS_COURSES, listing exactly the ids of the courses whose     *)
(* professor_id is the professor, and leaves the store as it was, when a   *)
(* course refers to the professor; otherwise it succeeds and removes the   *)
(* professor only.                                                         *)
C13_DeleteProfessorGuarded ==
    \A p \in DOMAIN professors :
        LET r == delete_professor(Db, p)
            referring == {c \in DOMAIN courses : courses[c].professor_id = p}
        IN  IF referring # {}
            THEN /\ r.response = "PROFESSOR_HAS_COURSES"
                 /\ r.extra = [assigned_courses |-> referring]
                 /\ r.db = Db
            ELSE /\ r.response = "OK"
                 /\ r.db = [Db EXCEPT !.professors = [q \in DOMAIN professors \ {p} |-> professors[q]]]

(* A professor with a course and a professor without one are in the store. *)
C13_Witness ==
    /\ \E p \in DOMAIN professors : \E c \in DOMAIN courses : courses[c].professor_id = p
    /\ \E p \in DOMAIN professors : \A c \in DOMAIN courses : courses[c].professor_id # p
    /\ DOMAIN courses # {}

(* C14: in the enhanced variant a create_professor or create_student with  *)
(* an email that a professor or student holds, and an update_professor or  *)
(* update_student to an email that another professor or student holds,     *)
(* fails with EMAIL_ALREADY_EXISTS and leaves the store as it was.         *)
C14_EmailCollisionFails ==
    \A e \in Emails :
        LET held_by_professors == {p \in DOMAIN professors : professors[p].email = e}
            held_by_students == {s \in DOMAIN students : students[s].email = e}
            Fails(r) == r.response = "EMAIL_ALREADY_EXISTS" /\ r.db = Db
        IN  /\ held_by_professors \cup held_by_students # {} =>
                  /\ \A d \in Departments, h \in HireDates : Fails(create_professor(Db, e, d, h))
                  /\ \A y \in Years : Fails(create_student(Db, e, y))
            /\ \A p \in DOMAIN professors, u \in ProfessorUpdates :
                  (/\ "email" \in DOMAIN u
                   /\ u.email = e
                   /\ (held_by_professors \ {p}) \cup held_by_students # {})
                      => Fails(update_professor(Db, p, u))
            /\ \A s \in DOMAIN students, u \in StudentUpdates :
                  (/\ "email" \in DOMAIN u
                   /\ u.email = e
                   /\ held_by_professors \cup (held_by_students \ {s}) # {})
                      => Fails(update_student(Db, s, u))

(* C15: in the enhanced variant a successful update_professor,             *)
(* update_student or update_course sets exactly the fields of the payload  *)
(* to the payload's values and leaves every other field of the record at   *)
(* its value.                                                              *)
C15_UpdateAppliesPayloadOnly ==
    LET Applied(old, new, u) ==
            /\ DOMAIN new = DOMAIN old
            /\ \A f \in DOMAIN old : new[f] = IF f \in DOMAIN u THEN u[f] ELSE old[f]
    IN  /\ \A p \in DOMAIN professors, u \in ProfessorUpdates :
              LET r == update_professor(Db, p, u)
              IN  r.response = "OK" => Applied(professors[p], r.db.professors[p], u)
        /\ \A s \in DOMAIN students, u \in StudentUpdates :
              LET r == update_student(Db, s, u)
              IN  r.response = "OK" => Applied(students[s], r.db.students[s], u)
        /\ \A c \in DOMAIN courses, u \in CourseUpdates :
              LET r == update_course(Db, c, u)
              IN  r.response = "OK" => Applied(courses[c], r.db.courses[c], u)

(* An update has set the credits of course 1 and left its max_capacity.    *)
C15_Witness ==
    /\ variant = "enhanced"
    /\ 1 \in DOMAIN courses
    /\ courses[1].credits = 4
    /\ courses[1].max_capacity = 30

(* C16: the id given to a new professor, student, course or (enhanced)     *)
(* enrollment is the collection's counter, which is above every id in the  *)
(* collection, never goes down and goes up by one with the new object; a   *)
(* create that fails leaves the counters as they were.  So a new id is     *)
(* above every id given before, those of deleted objects included.         *)
C16_IdsNeverReused ==
    /\ [](/\ \A p \in DOMAIN professors : p < next_professor_id
          /\ \A s \in DOMAIN students : s < next_student_id
          /\ \A c \in DOMAIN courses : c < next_course_id
          /\ variant = "enhanced" => \A k \in DOMAIN enrollments : k[2] < next_enrollment_id
          /\ variant = "enhanced" =>
                \A e \in Emails, p \in ProfessorIds, cr \in CreditValues, m \in CapacityValues,
                   s \in StudentIds, c \in CourseIds :
                    \A r \in {create_professor(Db, e, "Computer Science", "1936-09-30"),
                              create_student(Db, e, 2),
                              create_course(Db, <<"C", "S", "1", "0", "1">>, cr, m, p),
                              enroll_student_in_course(Db, s, c)} :
                        r.response # "OK" =>
                            /\ r.db.next_professor_id = next_professor_id
                            /\ r.db.next_student_id = next_student_id
                            /\ r.db.next_course_id = next_course_id
                            /\ r.db.next_enrollment_id = next_enrollment_id)
    /\ [][/\ next_professor_id' >= next_professor_id
          /\ next_student_id' >= next_student_id
          /\ next_course_id' >= next_course_id
          /\ next_enrollment_id' >= next_enrollment_id
          /\ \A p \in DOMAIN professors' \ DOMAIN professors :
                p = next_professor_id /\ next_professor_id' = p + 1
          /\ \A s \in DOMAIN students' \ DOMAIN students :
                s = next_student_id /\ next_student_id' = s + 1
          /\ \A c \in DOMAIN courses' \ DOMAIN courses :
                c = next_course_id /\ next_course_id' = c + 1
          /\ variant = "enhanced" =>
                \A k \in DOMAIN enrollments' \ DOMAIN enrollments :
                    k[2] = next_enrollment_id /\ next_enrollment_id' = k[2] + 1]_vars

(* Student 1 has been deleted and a student created after that has id 2.   *)
C16_Witness ==
    /\ 1 \notin DOMAIN students
    /\ 2 \in DOMAIN students

(* C17: a grade call on an existing enrollment with a letter of            *)
(* {A,B,C,D,F} in either case succeeds, stores the uppercase letter, also  *)
(* over an earlier grade, and leaves the student's gpa at the value        *)
(* computed from the grades then stored.                                   *)
C17_GradeAnyCase ==
    \A k \in DOMAIN enrollments, g \in {"A", "B", "F", "b"} :
        LET s == enrollments[k].student_id
            c == enrollments[k].course_id
            r == Grade(Db, s, c, g)
        IN  /\ r.response = "OK"
            /\ r.db.enrollments[k].grade = Upper(g)
            /\ r.db.students[s].gpa = GpaOf(r.db, s)

C19_FlagChangesOnlyAcrossThreshold ==
    \A s \in DOMAIN students, c \in CourseIds, g \in GradeInputs :
        \A r \in {drop_course(Db, s, c), update_enrollment_grade(Db, s, c, g)} :
            (/\ r.response = "OK"
             /\ r.db.students[s].academic_probation # students[s].academic_probation)
            => ((students[s].gpa < 200) # (r.db.students[s].gpa < 200))

(* C20: in the enhanced variant create_course with the code "cs101"        *)
(* succeeds and stores "CS101", create_course with "C1234" is rejected,    *)
(* and every stored course code is 2 to 4 letters A-Z followed by 3        *)
(* digits.                                                                 *)
C20_CourseCodeNormalized ==
    /\ \A cr \in CreditValues, m \in CapacityValues, p \in DOMAIN professors :
          LET lower == create_course(Db, <<"c", "s", "1", "0", "1">>, cr, m, p)
              malformed == create_course(Db, <<"C", "1", "2", "3", "4">>, cr, m, p)
          IN  /\ lower.response = "OK"
              /\ lower.db.courses[next_course_id].code = <<"C", "S", "1", "0", "1">>
              /\ malformed.response # "OK"
    /\ \A c \in DOMAIN courses :
          /\ Len(courses[c].code) \in 5..7
          /\ \A i \in 1..(Len(courses[c].code) - 3) :
                \E j \in DOMAIN UpperLetters : UpperLetters[j] = courses[c].code[i]
          /\ \A i \in (Len(courses[c].code) - 2)..Len(courses[c].code) :
                courses[c].code[i] \in {"0", "1", "2", "3", "4", "5", "6", "7", "8", "9"}

(* C21: enroll reports the first precondition that fails, in the order     *)
(* student exists, course exists, capacity, duplicate: a missing student   *)
(* is reported even if the course is missing too, and an enrolled student  *)
(* in a full course gets the capacity error; with no precondition failing  *)
(* the call succeeds.                                                      *)
C21_EnrollCheckOrder ==
    \A s \in StudentIds, c \in CourseIds :
        Enroll(Db, s, c).response =
            IF s \notin DOMAIN students THEN StudentNotFoundError
            ELSE IF c \notin DOMAIN courses THEN CourseNotFoundError
            ELSE IF courses[c].enrolled_students >= courses[c].max_capacity THEN CapacityError
            ELSE IF RecordsOf(Db, s, c) # {} THEN DuplicateError
            ELSE "OK"

(* A student is enrolled in a course that is full, a second pair is        *)
(* enrolled in a course with room, and the ids a call may name include a   *)
(* missing student and a missing course.                                   *)
C21_Witness ==
    /\ \E s \in DOMAIN students, c \in DOMAIN courses :
          /\ RecordsOf(Db, s, c) # {}
          /\ courses[c].enrolled_students >= courses[c].max_capacity
    /\ \E s \in DOMAIN students, c \in DOMAIN courses :
          /\ RecordsOf(Db, s, c) # {}
          /\ courses[c].enrolled_students < courses[c].max_capacity
    /\ \E s \in StudentIds, c \in CourseIds : s \notin DOMAIN students /\ c \notin DOMAIN courses

(* C22: in every reachable state every course's professor_id is the id of  *)
(* a professor in the store; create_course and update_course fail with     *)
(* NotFound for an absent professor id and leave the courses as they were, *)
(* and delete_professor of a professor that a course references leaves the *)
(* professor in the store.                                                 *)
C22_CourseProfessorExists ==
    /\ \A c \in DOMAIN courses : courses[c].professor_id \in DOMAIN professors
    /\ \A p \in ProfessorIds \ DOMAIN professors, cr \in CreditValues, m \in CapacityValues :
          LET r == CreateCourse(Db, cr, m, p)
          IN  r.response = ProfessorNotFoundError /\ r.db = Db
    /\ \A c \in DOMAIN courses, u \in CourseUpdatesOfVariant :
          ("professor_id" \in DOMAIN u /\ u.professor_id \notin DOMAIN professors) =>
              LET r == UpdateCourse(Db, c, u)
              IN  r.response = ProfessorNotFoundError /\ r.db = Db
    /\ \A c \in DOMAIN courses, u \in CourseUpdatesOfVariant :
          LET r == UpdateCourse(Db, c, u)
          IN  r.db.courses[c].professor_id \in DOMAIN r.db.professors
    /\ \A c \in DOMAIN courses :
          courses[c].professor_id \in DOMAIN DeleteProfessor(Db, courses[c].professor_id).db.professors

(* Two professors are in the store and a course that a create_course or    *)
(* update_course call has given to the second; a professor id that is not  *)
(* in the store can be named.                                              *)
C22_Witness ==
    /\ \E c \in DOMAIN courses : courses[c].professor_id >= 2
    /\ Cardinality(DOMAIN professors) >= 2
    /\ ProfessorIds \ DOMAIN professors # {}

(* C23: a successful enroll(s, c) adds exactly one enrollment record, with *)
(* student_id s, course_id c and no grade, adds one to c.enrolled_students *)
(* and leaves every other enrollment, every other course, all students and *)
(* all professors as they were; a pair that is dropped and enrolled again  *)
(* has no grade.                                                           *)
C23_EnrollFrame ==
    /\ \A s \in StudentIds, c \in CourseIds :
          LET r == Enroll(Db, s, c)
              added == DOMAIN r.db.enrollments \ DOMAIN enrollments
          IN  r.response = "OK" =>
                /\ Cardinality(added) = 1
                /\ \A k \in added : /\ r.db.enrollments[k].student_id = s
                                    /\ r.db.enrollments[k].course_id = c
                                    /\ r.db.enrollments[k].grade = NoGrade
                /\ \A k \in DOMAIN enrollments :
                      k \in DOMAIN r.db.enrollments /\ r.db.enrollments[k] = enrollments[k]
                /\ r.db.courses = [courses EXCEPT ![c].enrolled_students = @ + 1]
                /\ r.db.students = students
                /\ r.db.professors = professors
    /\ \A s \in DOMAIN students, c \in DOMAIN courses :
          LET dropped == Drop(Db, s, c)
              r == Enroll(dropped.db, s, c)
          IN  (dropped.response = "OK" /\ r.response = "OK") =>
                /\ Cardinality(RecordsOf(r.db, s, c)) = 1
                /\ \A k \in RecordsOf(r.db, s, c) : r.db.enrollments[k].grade = NoGrade

(* A graded enrollment is in the store whose pair can be dropped and       *)
(* enrolled again, and another student with a grade and a gpa can enroll   *)
(* in a second course.                                                     *)
C23_Witness ==
    /\ \E s \in DOMAIN students, c \in DOMAIN courses :
          /\ \E k \in RecordsOf(Db, s, c) : enrollments[k].grade # NoGrade
          /\ Enroll(Drop(Db, s, c).db, s, c).response = "OK"
    /\ \E s \in DOMAIN students, c \in DOMAIN courses :
          /\ Enroll(Db, s, c).response = "OK"
          /\ students[s].gpa > 0
          /\ \E k \in DOMAIN enrollments : enrollments[k].student_id = s /\ enrollments[k].grade # NoGrade

(* C24: a successful drop(s, c) removes exactly the enrollment of (s, c),  *)
(* takes one off c.enrolled_students, sets s.gpa to the credit-weighted    *)
(* average, rounded to 2 decimals, over the graded enrollments s still     *)
(* has (0.0 if none), and leaves the other enrollments, courses and        *)
(* students as they were; a drop of a pair with no enrollment fails with   *)
(* NotFound.                                                               *)
C24_DropFrame ==
    \A s \in StudentIds, c \in CourseIds :
        LET r == Drop(Db, s, c)
            K == {k \in DOMAIN enrollments \ RecordsOf(Db, s, c) :
                     /\ enrollments[k].student_id = s
                     /\ enrollments[k].grade # NoGrade}
            credits(k) == courses[enrollments[k].course_id].credits
            total_points == SumOver([k \in K |-> GRADE_TO_POINTS[enrollments[k].grade] * credits(k)], K)
            total_credits == SumOver([k \in K |-> credits(k)], K)
        IN  IF RecordsOf(Db, s, c) = {}
            THEN r.response = EnrollmentNotFoundError /\ r.db = Db
            ELSE /\ r.response = "OK"
                 /\ Cardinality(RecordsOf(Db, s, c)) = 1
                 /\ r.db.enrollments = Del(enrollments, RecordsOf(Db, s, c))
                 /\ r.db.courses = [courses EXCEPT ![c].enrolled_students = @ - 1]
                 /\ DOMAIN r.db.students = DOMAIN students
                 /\ \A t \in DOMAIN students \ {s} : r.db.students[t] = students[t]
                 /\ r.db.students[s].gpa = IF K = {} THEN 0 ELSE Round2(total_points, total_credits)
                 /\ r.db.students[s].email = students[s].email
                 /\ r.db.students[s].year = students[s].year
                 /\ r.db.professors = professors

(* A student has two graded enrollments, and dropping one of them changes  *)
(* the stored gpa to a value above 0; a pair that a call may name has no   *)
(* enrollment.                                                             *)
C24_Witness ==
    /\ \E s \in DOMAIN students, c \in DOMAIN courses :
          /\ Drop(Db, s, c).response = "OK"
          /\ Drop(Db, s, c).db.students[s].gpa # students[s].gpa
          /\ Drop(Db, s, c).db.students[s].gpa > 0
    /\ \E s \in StudentIds, c \in CourseIds :
          Drop(Db, s, c).response = EnrollmentNotFoundError

(* C25: delete_course leaves every student's record, and so the stored gpa *)
(* and academic_probation, as it was before the call, also for students    *)
(* with a graded enrollment in the deleted course; and a step changes the  *)
(* stored gpa or academic_probation of a student only if it is a grade or  *)
(* drop call for that student.                                             *)
C25_DeleteCourseKeepsGpa ==
    /\ [](\A c \in CourseIds : DeleteCourse(Db, c).db.students = students)
    /\ [][\A s \in DOMAIN students \cap DOMAIN students' :
              DerivedFields(students'[s]) # DerivedFields(students[s]) =>
                  \E c \in CourseIds :
                      \/ Drop(Db, s, c).response = "OK" /\ Drop(Db, s, c).db = Db'
                      \/ \E g \in GradeInputs \cup SimpleGradeInputs :
                            /\ Grade(Db, s, c, g).response = "OK"
                            /\ Grade(Db, s, c, g).db = Db']_vars

(* A student with a gpa above 0 has no enrollment left: the course of the  *)
(* student's graded enrollment has been deleted.                           *)
C25_Witness ==
    \E s \in DOMAIN students :
        /\ students[s].gpa > 0
        /\ \A k \in DOMAIN enrollments : enrollments[k].student_id # s

(* C26: when the statements of enroll calls interleave, a course goes over *)
(* its capacity only if two requests passed its capacity check, going over *)
(* by less than the number of requests; and an enroll call that runs to    *)
(* completion from a store in which every course is within capacity leaves *)
(* every course within capacity, so that enrolls running atomically never  *)
(* reach enrolled_students > max_capacity.                                 *)
C26_OvershootNeedsInterleaving ==
    /\ \A c \in DOMAIN courses :
          /\ courses[c].enrolled_students > courses[c].max_capacity =>
                Cardinality(PassedCapacityCheck(c)) >= 2
          /\ courses[c].enrolled_students < courses[c].max_capacity + MaxRequests
    /\ (\A c \in DOMAIN courses : courses[c].enrolled_students <= courses[c].max_capacity) =>
          \A s \in StudentIds, c \in CourseIds :
              \A d \in DOMAIN Enroll(Db, s, c).db.courses :
                  Enroll(Db, s, c).db.courses[d].enrolled_students
                      <= Enroll(Db, s, c).db.courses[d].max_capacity

(* Two requests of different students for the same course have both        *)
(* returned OK and the course has more students than its capacity.         *)
C26_Witness ==
    \E i, j \in DOMAIN requests :
        /\ requests[i].student_id # requests[j].student_id
        /\ requests[i].course_id = requests[j].course_id
        /\ requests[i].response = "OK" /\ requests[j].response = "OK"
        /\ requests[i].course_id \in DOMAIN courses
        /\ courses[requests[i].course_id].enrolled_students
              > courses[requests[i].course_id].max_capacity

(* C27: the "Not Graded" count of the GPA distribution is the number of    *)
(* students whose stored gpa is 0 and none of whose enrollments has a      *)
(* grade, and the students with gpa 0 and a graded enrollment are counted  *)
(* in "0.0-0.99".                                                          *)
C27_NotGradedBucket ==
    LET HasGrade(s) == \E k \in DOMAIN enrollments :
                           enrollments[k].student_id = s /\ enrollments[k].grade # NoGrade
        ungraded == {s \in DOMAIN students : students[s].gpa = 0 /\ ~HasGrade(s)}
        low == {s \in DOMAIN students \ ungraded : students[s].gpa < 100}
    IN  /\ get_gpa_distribution(Db)["Not Graded"] = Cardinality(ungraded)
        /\ get_gpa_distribution(Db)["0.0-0.99"] = Cardinality(low)
        /\ \A s \in DOMAIN students :
              (students[s].gpa = 0 /\ HasGrade(s)) => s \in low

(* One student has gpa 0 with every enrollment graded F, another has gpa 0 *)
(* and no grade.                                                           *)
C27_Witness ==
    /\ \E s \in DOMAIN students :
          /\ students[s].gpa = 0
          /\ \E k \in DOMAIN enrollments : enrollments[k].student_id = s
          /\ \A k \in DOMAIN enrollments :
                enrollments[k].student_id = s => enrollments[k].grade = "F"
    /\ \E s \in DOMAIN students :
          /\ students[s].gpa = 0
          /\ \A k \in DOMAIN enrollments :
                enrollments[k].student_id = s => enrollments[k].grade = NoGrade

(* C28: in every reachable state every student's stored gpa is between 0.0 *)
(* and 4.0 inclusive (0 to 400 in hundredths).                             *)
C28_GpaInRange ==
    \A s \in DOMAIN students : 0 <= students[s].gpa /\ students[s].gpa <= 400

(* A student has a gpa that is no whole number, from an A and a lower      *)
(* grade in two courses of different credits.                              *)
C28_Witness ==
    \E s \in DOMAIN students :
        /\ students[s].gpa % 100 # 0
        /\ \E j, k \in DOMAIN enrollments :
              /\ j # k
              /\ enrollments[j].student_id = s /\ enrollments[k].student_id = s
              /\ enrollments[j].grade = "A" /\ enrollments[k].grade \in {"B", "F"}

(* C29: in every reachable state the five counts returned by               *)
(* get_gpa_distribution add up to the number of students in the store, and *)
(* every student is counted in one of the five buckets.                    *)
C29_BucketsCoverStudents ==
    /\ SumOver(get_gpa_distribution(Db), GpaBuckets) = Cardinality(DOMAIN students)
    /\ \A s \in DOMAIN students : GpaBucket(Db, s) \in GpaBuckets

(* The store has a student with gpa 4.0 and a student in another bucket.   *)
C29_Witness ==
    /\ get_gpa_distribution(Db)["3.0-4.0"] >= 1
    /\ \E s \in DOMAIN students : students[s].gpa = 400
    /\ \E b \in GpaBuckets \ {"3.0-4.0"} : get_gpa_distribution(Db)[b] >= 1

(* C30: for a student s and a course c in the store, with c below capacity *)
(* and no enrollment of (s, c), enroll(s, c) followed by drop(s, c) both   *)
(* succeed and restore the enrollments, every course record and the        *)
(* professors to what they were before the enroll; of the id counters only *)
(* the enrollment counter of the enhanced variant has advanced, by one.    *)
C30_EnrollThenDropRestores ==
    \A s \in DOMAIN students, c \in DOMAIN courses :
        (courses[c].enrolled_students < courses[c].max_capacity /\ RecordsOf(Db, s, c) = {}) =>
            LET enrolled == Enroll(Db, s, c)
                dropped == Drop(enrolled.db, s, c)
            IN  /\ enrolled.response = "OK"
                /\ enrolled.db.enrollments # enrollments
                /\ dropped.response = "OK"
                /\ dropped.db.enrollments = enrollments
                /\ dropped.db.courses = courses
                /\ dropped.db.professors = professors
                /\ dropped.db.next_professor_id = next_professor_id
                /\ dropped.db.next_student_id = next_student_id
                /\ dropped.db.next_course_id = next_course_id
                /\ dropped.db.next_enrollment_id =
                      IF variant = "enhanced" THEN next_enrollment_id + 1 ELSE next_enrollment_id

(* A student can enroll in a course with room while the store holds a      *)
(* graded enrollment of another pair.                                      *)
C30_Witness ==
    /\ \E s \in DOMAIN students, c \in DOMAIN courses :
          /\ courses[c].enrolled_students < courses[c].max_capacity
          /\ RecordsOf(Db, s, c) = {}
    /\ \E k \in DOMAIN enrollments : enrollments[k].grade # NoGrade

(* C33: no update call changes a store-owned or derived field, whatever    *)
(* the request body holds: update_student leaves every student's id, gpa   *)
(* and academic_probation, update_course every course's id and             *)
(* enrolled_students, update_professor every professor's id and hire_date  *)
(* as they were, and each of them leaves the enrollments, the id counters  *)
(* and the other collections as they were.                                 *)
C33_UpdateKeepsOwnedFields ==
    /\ \A p \in ProfessorIds, body \in BodiesOf(ProfessorUpdatesOfVariant) :
          LET r == UpdateProfessor(Db, p, ParseBody(body, ProfessorUpdateFields))
          IN  /\ r.db = [Db EXCEPT !.professors = r.db.professors]
              /\ DOMAIN r.db.professors = DOMAIN professors
              /\ \A q \in DOMAIN professors :
                    /\ r.db.professors[q].id = professors[q].id
                    /\ r.db.professors[q].hire_date = professors[q].hire_date
    /\ \A s \in StudentIds, body \in BodiesOf(StudentUpdatesOfVariant) :
          LET r == UpdateStudent(Db, s, ParseBody(body, StudentUpdateFields))
          IN  /\ r.db = [Db EXCEPT !.students = r.db.students]
              /\ DOMAIN r.db.students = DOMAIN students
              /\ \A t \in DOMAIN students :
                    /\ r.db.students[t].id = students[t].id
                    /\ DerivedFields(r.db.students[t]) = DerivedFields(students[t])
    /\ \A c \in CourseIds, body \in BodiesOf(CourseUpdatesOfVariant) :
          LET r == UpdateCourse(Db, c, ParseBody(body, CourseUpdateFields))
          IN  /\ r.db = [Db EXCEPT !.courses = r.db.courses]
              /\ DOMAIN r.db.courses = DOMAIN courses
              /\ \A d \in DOMAIN courses :
                    /\ r.db.courses[d].id = courses[d].id
                    /\ r.db.courses[d].enrolled_students = courses[d].enrolled_students

(* An update_course call has changed the credits of the seeded course,     *)
(* which has a student enrolled, and a student has a gpa above 0.          *)
C33_Witness ==
    /\ 1 \in DOMAIN courses
    /\ courses[1].credits = 4
    /\ courses[1].enrolled_students >= 1
    /\ \E s \in DOMAIN students : students[s].gpa > 0

(* C32: in the enhanced variant, when the statements of enroll calls       *)
(* interleave, the record a request inserted is replaced only by the       *)
(* record of another request that read the same next_enrollment_id; and an *)
(* enroll call that runs to completion from a store whose counter is above *)
(* every ENR key inserts under a key that was not in the store, keeps      *)
(* every record that was, and leaves the counter above every key, so that  *)
(* with atomic enroll calls no two live enrollments share an id.           *)
C32_SharedIdNeedsInterleaving ==
    variant = "enhanced" =>
        /\ \A i \in Inserted :
              LET k == <<"ENR", requests[i].enrollment_id>> IN
              /\ k \in DOMAIN enrollments
              /\ \/ /\ enrollments[k].student_id = requests[i].student_id
                    /\ enrollments[k].course_id = requests[i].course_id
                 \/ \E j \in Inserted \ {i} :
                       /\ requests[j].enrollment_id = requests[i].enrollment_id
                       /\ enrollments[k].student_id = requests[j].student_id
                       /\ enrollments[k].course_id = requests[j].course_id
        /\ (requests = << >>) => CounterAhead(Db)
        /\ CounterAhead(Db) =>
              \A s \in StudentIds, c \in CourseIds :
                  LET r == enroll_student_in_course(Db, s, c) IN
                  /\ CounterAhead(r.db)
                  /\ \A k \in DOMAIN enrollments :
                        k \in DOMAIN r.db.enrollments /\ r.db.enrollments[k] = enrollments[k]
                  /\ r.response = "OK" =>
                        Cardinality(DOMAIN r.db.enrollments) = Cardinality(DOMAIN enrollments) + 1

(* Two requests for different pairs have read the same next_enrollment_id  *)
(* and both returned OK: one record is in the store under their key, and a *)
(* course's enrolled_students is not the number of its enrollment records. *)
C32_Witness ==
    /\ variant = "enhanced"
    /\ \E i, j \in DOMAIN requests :
          /\ i # j
          /\ requests[i].response = "OK" /\ requests[j].response = "OK"
          /\ requests[i].enrollment_id = requests[j].enrollment_id
          /\ <<requests[i].student_id, requests[i].course_id>>
                # <<requests[j].student_id, requests[j].course_id>>
          /\ RecordsOf(Db, requests[i].student_id, requests[i].course_id) = {}
    /\ \E c \in DOMAIN courses :
          courses[c].enrolled_students
             # Cardinality({k \in DOMAIN enrollments : enrollments[k].course_id = c})

(* C31: brought to the same students, courses and enrollments and sent the *)
(* same enroll, drop, grade (uppercase letters), delete_student and        *)
(* delete_course calls, the enhanced and the simple program hold the same  *)
(* (student_id, course_id, grade) triples, the same enrolled_students for  *)
(* each course and the same gpa for each student, as many enrollment       *)
(* records in one as in the other, and each next call succeeds in both or  *)
(* fails in both.                                                          *)
C31_VariantsAgree ==
    /\ Triples(Db) = Triples(shadow)
    /\ Cardinality(DOMAIN enrollments) = Cardinality(DOMAIN shadow.enrollments)
    /\ DOMAIN courses = DOMAIN shadow.courses
    /\ \A c \in DOMAIN courses :
          courses[c].enrolled_students = shadow.courses[c].enrolled_students
    /\ DOMAIN students = DOMAIN shadow.students
    /\ \A s \in DOMAIN students : students[s].gpa = shadow.students[s].gpa
    /\ \A s \in StudentIds, c \in CourseIds :
          /\ (enroll_student_in_course(Db, s, c).response = "OK")
                <=> (simple_enroll_student_in_course(shadow, s, c).response = "OK")
          /\ (drop_course(Db, s, c).response = "OK")
                <=> (simple_drop_course(shadow, s, c).response = "OK")
          /\ \A g \in LockstepGrades :
                (update_enrollment_grade(Db, s, c, g).response = "OK")
                   <=> (simple_update_enrollment_grade(shadow, s, c, g).response = "OK")
          /\ (delete_student(Db, s).response = "OK")
                <=> (simple_delete_student(shadow, s).response = "OK")
          /\ (delete_course(Db, c).response = "OK")
                <=> (simple_delete_course(shadow, c).response = "OK")

(* Both programs have served enroll calls beyond the seeded enrollment,    *)
(* hold a full course and a course with room, and a student with a gpa     *)
(* above 0 from a grade call.                                              *)
C31_Witness ==
    /\ next_enrollment_id >= 3
    /\ Cardinality(DOMAIN shadow.enrollments) >= 2
    /\ \E c \in DOMAIN courses : courses[c].enrolled_students >= courses[c].max_capacity
    /\ \E c \in DOMAIN shadow.courses :
          shadow.courses[c].enrolled_students < shadow.courses[c].max_capacity
    /\ \E s \in DOMAIN shadow.students : shadow.students[s].gpa > 0

=============================================================================
